---- MODULE Spec2Model ----
(***************************************************************************)
(* Incremental crawl-and-dedup pipeline of the findlaw / elitigation       *)
(* scrapers: the tracked US case-law driver (src/us/caselaw_index.js,      *)
(* second script, lines 223-458), the Singapore case-law driver            *)
(* (src/utils/cronTracker.js, second script, lines 116-384) and the two    *)
(* Cloudflare workers they call (src/src/index.js, src/unnamed/part_000).  *)
(*                                                                         *)
(* The store is the pair of tables the drivers share: the record table     *)
(* (caselaw_us / caselaw_singapore) and the ledger caselaw_scraping_urls,  *)
(* whose url column is the conflict key of every upsert.                   *)
(***************************************************************************)
EXTENDS Integers, Sequences, FiniteSets, TLC

\* ---------------------------------------------------------------- bounds
\* Number of consecutive runs of a driver (cron invocations) explored.
MaxRuns == 2
\* Number of store failures (returned errors, rejected calls) injected in
\* one behaviour; two let the record write and the error upsert of one
\* insertCaseLaw call both fail.
MaxFaults == 2

\* ---------------------------------------------------- program constants
\* fetchWithRetry(url, retries = 5, ...)
Retries == 5
\* CONFIG.maxSitemaps of the tracked US driver
maxSitemaps == 1
\* CONFIG.filterBatchSize / CONFIG.cloudFlareBatchSize: 10000 and 100 in the
\* source; the driver is explored for small widths, filter batch the wider
\* and narrower than a page, so that a page takes several filter batches and
\* a filter batch several dispatch batches.
filterBatchSize == 2
cloudFlareBatchSize == 1
\* CONFIG.maxEntriesPerSitemap of the US drivers: 4 in the source, for
\* sitemaps of thousands of locators; kept below the length of a page.
maxEntriesPerSitemap == 2
\* CONFIG.maxPages of the Singapore driver: 100000000 in the source; the
\* driver is explored with the cap on the last page the listing has.
maxPages == 341
\* Singapore: let pageIndex = 340; CONFIG.maxEntriesPerPage
StartPage == 340
maxEntriesPerPage == 10

\* ------------------------------------------------------------ the world
URLs == {"u1", "u2", "u3"}
Drivers == {"us", "sg"}

\* JS undefined / SQL NULL for a text column.
Undefined == "undefined"

\* String.prototype.trim on the strings of the model.
Trim(s) ==
    IF s = " " THEN "" ELSE s

\* content.replace(/\s+/g, ' ').trim() on the strings of the model.
Squeeze(s) ==
    Trim(s)

\* What the remote site serves for a document URL: how the request made by
\* the worker ends, and the citation and body text found in the markup.
FullPage == [net |-> "ok", citation |-> "c1", content |-> "t"]
NoCitationPage == [net |-> "ok", citation |-> "", content |-> "t"]
BlankPage == [net |-> "ok", citation |-> "c1", content |-> " "]
DownPage == [net |-> "throw", citation |-> "", content |-> ""]

\* The remote sites explored: u1 and u2 may carry the same citation, u1 may
\* carry none, u2 may have a blank body, u3 may be unreachable.
Served(u) ==
    IF u = "u1" THEN {FullPage, NoCitationPage}
    ELSE IF u = "u2" THEN {FullPage, BlankPage}
    ELSE {FullPage, DownPage}

Upstreams ==
    { f \in [URLs -> {FullPage, NoCitationPage, BlankPage, DownPage}] :
        \A u \in URLs : f[u] \in Served(u) }

\* The listing the workers serve.  US: sitemap index -> sitemap -> page urls.
SiteMapUrls == <<"s1", "s2">>

PageUrlsOf(s) ==
    IF s = "s1" THEN <<"u1", "u2", "u3">> ELSE <<"u3">>

\* Singapore: /sitemap/cases?index=n -> hrefs of page n (empty past the end).
CaseUrlsOf(n) ==
    IF n = StartPage THEN <<"u1", "u2">>
    ELSE IF n = StartPage + 1 THEN <<"u3">>
    ELSE << >>

VARIABLES
    driver,        \* which script runs
    upstream,      \* URL -> RemotePages, the unchanged remote documents
    run,           \* number of the current run, 1..MaxRuns
    pc,            \* position of the driver
    records,       \* record table: sequence of rows, id = position
    ledger,        \* caselaw_scraping_urls: url -> row
    faults,        \* store failures injected so far
    netFaults,     \* TRUE once a request to a worker failed
    sitemaps,      \* US: sitemaps still to process
    pageIndex,     \* SG: pageIndex
    pageUrls,      \* page urls of the current sitemap / casesToProcess
    i,             \* US: offset of the filter batch in pageUrls
    checks,        \* per position of the filter batch: state of its check
    urlsToProcess, \* urls that survived the filter
    j,             \* US: offset of the dispatch batch in urlsToProcess
    fetches,       \* per position of the dispatch batch: state of its fetch
    results,       \* results of the dispatch batch (after Promise.all)
    k,             \* index of the next result to drain
    dispatched,    \* urls passed to fetchWithRetry in this run
    rowsAtStart,   \* Len(records) when the current run started
    lastIngest,    \* what the last insertCaseLaw call met and returned
    jobRun,        \* US: the row of cron_job_runs inserted for this run
    newCasesFound, \* US: newCasesFound
    sitemapsProcessed, \* US: sitemapsProcessed
    jobCalls,      \* US: calls of completeJob and failJob made in this run
    writers,       \* SG: the insertCaseLaw calls of two overlapping runs
    acts,          \* acts driver: table acts, act_id = position
    sections,      \* acts driver: table sections
    scrapingSitemap \* acts driver: urls of acts_sections_scraping_sitemap

vars ==
    << driver, upstream, run, pc, records, ledger, faults, netFaults,
       sitemaps, pageIndex, pageUrls, i, checks, urlsToProcess, j, fetches,
       results, k, dispatched, rowsAtStart, lastIngest, jobRun,
       newCasesFound, sitemapsProcessed, jobCalls, writers, acts, sections,
       scrapingSitemap >>

\* What the case-law drivers of Spec never touch: the calls of a second,
\* overlapping Singapore run and the tables of the acts driver.
sideVars == << writers, acts, sections, scrapingSitemap >>

\* --------------------------------------------------------------- helpers
Min(a, b) ==
    IF a < b THEN a ELSE b

\* Array.prototype.slice(from, to) with 0-based offsets, on a sequence.
Slice(s, from, to) ==
    SubSeq(s, from + 1, Min(to, Len(s)))

Range(s) ==
    { s[x] : x \in DOMAIN s }

\* filter(item => pred).map(item => item.url), order kept.
RECURSIVE FilterSeq(_, _)
FilterSeq(s, keep) ==
    IF s = << >> THEN << >>
    ELSE IF keep[1]
         THEN << Head(s) >> \o FilterSeq(Tail(s), Tail(keep))
         ELSE FilterSeq(Tail(s), Tail(keep))

\* ------------------------------------------------------------- the store
NoEntry ==
    [present |-> FALSE, processed |-> FALSE, status |-> "none",
     case_id |-> 0, error_message |-> ""]

\* Faulty variant of UpsertSuccess: the entry is linked to the row after the
\* one just written.
UpsertSuccess_Dangling(l, url, id) ==
    [l EXCEPT ![url] = [@ EXCEPT !.present = TRUE, !.processed = TRUE,
                                 !.status = "success", !.case_id = id + 1]]

\* upsert([{url, case_id, processed: true, status: 'success'}],
\*        {onConflict: 'url'}): the columns given replace those of the row
\* with that url, the others keep their value (or their default, on insert).
UpsertSuccess(l, url, id) ==
    [l EXCEPT ![url] = [@ EXCEPT !.present = TRUE, !.processed = TRUE,
                                 !.status = "success", !.case_id = id]]

\* Faulty variant of UpsertError: an entry that exists is left as it is.
UpsertError_KeepFirst(l, url, msg) ==
    IF l[url].present THEN l
    ELSE [l EXCEPT ![url] = [@ EXCEPT !.present = TRUE, !.processed = FALSE,
                                      !.status = "error",
                                      !.error_message = msg]]

\* upsert([{url, processed: false, status: 'error', error_message}], ...)
UpsertError(l, url, msg) ==
    [l EXCEPT ![url] = [@ EXCEPT !.present = TRUE, !.processed = FALSE,
                                 !.status = "error", !.error_message = msg]]

\* A row of the record table.  The table has no url column: src is the
\* locator the row was scraped from, kept to state provenance.
Row(caseData, url) ==
    [citation |-> caseData.citation, case_text |-> caseData.case_text,
     src |-> url]

RowsWithCitation(recs, c) ==
    { x \in DOMAIN recs : recs[x].citation = c }

\* ----------------------------------------------------------- the workers
OrNotFound(s) ==
    IF s = "" \/ s = Undefined THEN "Not found" ELSE s

\* Findlaw worker, GET /api/scrape/cases: the JSON body of its 200 response.
\* A failed or non-ok upstream request is caught and answered {error}.
scrapeCasesPage(page) ==
    IF page.net # "ok"
    THEN [error |-> "scrape failed", citation |-> Undefined,
          case_text |-> Undefined]
    ELSE [error |-> Undefined,
          citation |-> OrNotFound(Trim(page.citation)),
          case_text |-> OrNotFound(Squeeze(page.content))]

\* Singapore worker, GET /api/scrape/cases: response.ok is not looked at, so
\* an error page is parsed like any markup and yields empty fields; only a
\* thrown request is answered {error}.
scrapeCaseLaw(page) ==
    IF page.net = "throw"
    THEN [error |-> "scrape failed", citation |-> Undefined,
          case_text |-> Undefined]
    ELSE IF page.net = "ok"
    THEN [error |-> Undefined, citation |-> Trim(page.citation),
          case_text |-> Trim(page.content)]
    ELSE [error |-> Undefined, citation |-> "", case_text |-> ""]

\* Singapore worker, GET /api/sitemap/cases?index=n: the hrefs found in what
\* the site answered.  response.ok is not looked at, so an error page of
\* the site is parsed like a listing and yields no href.
getCaseLawsList(n, site) ==
    IF site = "ok" THEN CaseUrlsOf(n) ELSE << >>

\* ------------------------------------------------------------ the fetcher
\* How one request to a worker ends: an ok response, a non-ok response, or
\* a thrown network error.
Transports == {"ok", "nonok", "throw"}

NewFetch ==
    [pass |-> 1, i |-> 0, st |-> "flying"]

\* Faulty variant of fetchWithRetry: the retry test is i < retries.
fetchWithRetry_ExtraRequest(f, t) ==
    IF t = "ok" THEN [f EXCEPT !.i = 0, !.st = "ok"]
    ELSE IF t = "throw" THEN [f EXCEPT !.i = 0, !.st = "threw"]
    ELSE IF f.i < Retries THEN [f EXCEPT !.i = @ + 1]
    ELSE [f EXCEPT !.i = 0, !.st = "failed"]

\* One turn of the loop of fetchWithRetry, f.i being the loop variable: the
\* request is issued and ends as t.  An ok response is returned; a non-ok
\* one is retried while i < retries - 1 and else the loop ends with the
\* marker {url, status: "error", error}; a throw leaves the function.
fetchWithRetry(f, t) ==
    IF t = "ok" THEN [f EXCEPT !.i = 0, !.st = "ok"]
    ELSE IF t = "throw" THEN [f EXCEPT !.i = 0, !.st = "threw"]
    ELSE IF f.i < Retries - 1 THEN [f EXCEPT !.i = @ + 1]
    ELSE [f EXCEPT !.i = 0, !.st = "failed"]

\* Faulty variant of FetchResult: the marker is read like an ok response.
FetchResult_MarkerAsData(url, f, data) ==
    IF f.st \in {"ok", "failed"}
    THEN [url |-> url, status |-> Undefined, error |-> data.error,
          citation |-> data.citation, case_text |-> data.case_text]
    ELSE [url |-> url, status |-> "error", error |-> "fetch threw",
          citation |-> Undefined, case_text |-> Undefined]

\* What the async callback of fetchPromises returns for url once its fetch
\* is settled: {...data, url}, or {url, status: 'error', error}.
FetchResult(url, f, data) ==
    IF f.st = "ok"
    THEN [url |-> url, status |-> Undefined, error |-> data.error,
          citation |-> data.citation, case_text |-> data.case_text]
    ELSE [url |-> url, status |-> "error",
          error |-> IF f.st = "failed" THEN "Failed after multiple retries"
                    ELSE "fetch threw",
          citation |-> Undefined, case_text |-> Undefined]

\* ------------------------------------------------- the existence oracle
\* How one store call ends: data, a returned {error}, or a rejection.
Lookups == {"ok", "error", "throw"}

\* Faulty variant of US_checkIfUrlProcessed: .eq('processed', true) is dropped.
US_checkIfUrlProcessed_AnyEntry(l, url, o) ==
    IF o = "throw" THEN "rejected"
    ELSE IF o = "error" THEN "no_err"
    ELSE IF l[url].present THEN "yes" ELSE "no"

\* US checkIfUrlProcessed(url), the store call ending as o: the answer
\* "yes"/"no" ("no_err" is the answer false given on a returned error),
\* or "rejected" when the awaited call throws: nothing catches it here.
US_checkIfUrlProcessed(l, url, o) ==
    IF o = "throw" THEN "rejected"
    ELSE IF o = "error" THEN "no_err"
    ELSE IF l[url].present /\ l[url].processed THEN "yes" ELSE "no"

\* Singapore checkIfUrlProcessed(url): `return false;` precedes the query.
SG_checkIfUrlProcessed(l, url) ==
    "no"

AnsweredNo(c) ==
    c \in {"no", "no_err"}

\* JS truthiness of a string field.
Truthy(s) ==
    s # Undefined /\ s # ""

\* Singapore checkIfCitationExists(citation), the query ending as o.
\* maybeSingle() yields the row when exactly one matches, null when none
\* does and error PGRST116 (data null) when several do.
checkIfCitationExists(recs, citation, o) ==
    IF ~Truthy(citation) THEN FALSE
    ELSE IF o = "error" THEN FALSE
    ELSE Cardinality(RowsWithCitation(recs, citation)) = 1

\* ------------------------------------------------------ the ingest writer
\* How the store calls of one insertCaseLaw call end: lk the citation
\* lookup, wr the record insert, up the success upsert, eu the error upsert
\* of the catch block.
StoreOutcomes ==
    [lk : {"ok", "error"}, wr : {"ok", "error"}, up : {"ok", "error"},
     eu : {"ok", "error"}]

FaultsOf(o) ==
    (IF o.lk = "error" THEN 1 ELSE 0) + (IF o.wr = "error" THEN 1 ELSE 0)
    + (IF o.up = "error" THEN 1 ELSE 0) + (IF o.eu = "error" THEN 1 ELSE 0)

NullRet == [kind |-> "null", id |-> 0]
IdRet(id) == [kind |-> "id", id |-> id]
ThrowRet == [kind |-> "throw", id |-> 0]

\* catch (error) { await upsert({url, processed: false, status: 'error',
\* error_message}); throw error; }  The upsert's returned error is not read.
\* raised is what the caller is thrown: the caught error alone.
CatchBlock(recs, l, sourceUrl, msg, o) ==
    [records |-> recs,
     ledger |-> IF o.eu = "ok" THEN UpsertError(l, sourceUrl, msg) ELSE l,
     ret |-> ThrowRet, raised |-> << msg >>]

\* US insertCaseLaw(caseData, sourceUrl).  The insert's error is only
\* logged; with data null the argument `data.id` of the success upsert
\* throws a TypeError before the upsert is sent.
US_insertCaseLaw(recs, l, caseData, sourceUrl, o) ==
    IF o.wr = "ok"
    THEN LET recs1 == Append(recs, Row(caseData, sourceUrl))
         IN  IF o.up = "ok"
             THEN [records |-> recs1,
                   ledger |-> UpsertSuccess(l, sourceUrl, Len(recs1)),
                   ret |-> IdRet(Len(recs1)), raised |-> << >>]
             ELSE CatchBlock(recs1, l, sourceUrl, "upsert failed", o)
    ELSE CatchBlock(recs, l, sourceUrl, "TypeError", o)

\* Singapore insertCaseLaw(caseData, sourceUrl).
SG_insertCaseLaw(recs, l, caseData, sourceUrl, o) ==
    IF Truthy(caseData.citation)
       /\ checkIfCitationExists(recs, caseData.citation, o.lk)
    THEN [records |-> recs, ledger |-> l, ret |-> NullRet, raised |-> << >>]
    ELSE IF caseData.case_text = Undefined
    THEN CatchBlock(recs, l, sourceUrl, "TypeError", o)
    ELSE IF Trim(caseData.case_text) = ""
    THEN [records |-> recs, ledger |-> l, ret |-> NullRet, raised |-> << >>]
    ELSE IF o.wr = "error"
    THEN CatchBlock(recs, l, sourceUrl, "insert failed", o)
    ELSE LET recs1 == Append(recs, Row(caseData, sourceUrl))
         IN  IF o.up = "ok"
             THEN [records |-> recs1,
                   ledger |-> UpsertSuccess(l, sourceUrl, Len(recs1)),
                   ret |-> IdRet(Len(recs1)), raised |-> << >>]
             ELSE CatchBlock(recs1, l, sourceUrl, "upsert failed", o)

\* --------------------------------------------------------- the job tracker
NoJobRun ==
    [present |-> FALSE, status |-> "none", new_cases_found |-> 0,
     pages_processed |-> 0, error_message |-> ""]

\* startJob(supabase, jobName), its insert ending as o: the row inserted.
\* On an error, returned or thrown (the try/catch of the function turns a
\* rejected call into {runId: null, success: false}), no row exists and
\* runId is null.
startJob(o) ==
    IF o = "ok" THEN [NoJobRun EXCEPT !.present = TRUE, !.status = "started"]
    ELSE NoJobRun

\* Faulty variant of completeJob: the metrics are left out of the update.
completeJob_NoMetrics(row, id, metrics, o) ==
    IF id = "null" \/ o # "ok" THEN row
    ELSE [row EXCEPT !.status = "completed"]

\* completeJob(supabase, runId, metrics), its update ending as o.  Without
\* a runId nothing is sent; a failed update is logged and false returned.
completeJob(row, id, metrics, o) ==
    IF id = "null" \/ o # "ok" THEN row
    ELSE [row EXCEPT !.status = "completed",
                     !.new_cases_found = metrics.new_cases_found,
                     !.pages_processed = metrics.pages_processed]

\* Faulty variant of failJob: the row is marked completed.
failJob_Completed(row, id, metrics, errorMessage, o) ==
    IF id = "null" \/ o # "ok" THEN row
    ELSE [row EXCEPT !.status = "completed",
                     !.error_message = errorMessage,
                     !.new_cases_found = metrics.new_cases_found,
                     !.pages_processed = metrics.pages_processed]

\* failJob(supabase, runId, metrics, errorMessage), its update ending as o.
failJob(row, id, metrics, errorMessage, o) ==
    IF id = "null" \/ o # "ok" THEN row
    ELSE [row EXCEPT !.status = "failed",
                     !.error_message = errorMessage,
                     !.new_cases_found = metrics.new_cases_found,
                     !.pages_processed = metrics.pages_processed]

\* ------------------------------------------------------------ the drivers
NoIngest ==
    [called |-> FALSE, url |-> "", ret |-> NullRet, lookupFailed |-> FALSE,
     citationExisted |-> FALSE, textBlank |-> FALSE, wrote |-> FALSE,
     failure |-> "", secondaryFailed |-> FALSE, raised |-> << >>]

\* What one insertCaseLaw call met: whether its citation lookup failed,
\* whether a row with the record's citation was in the table, whether the
\* record's text was missing or blank, what it returned, whether the record
\* table grew, which of the record write and the success upsert failed
\* (failure, the message of the store error), whether the error upsert of
\* the catch block failed, and what the caller was thrown.
Ingest(caseData, url, o, out) ==
    [called |-> TRUE, url |-> url, ret |-> out.ret,
     lookupFailed |-> driver = "sg" /\ Truthy(caseData.citation)
                      /\ o.lk = "error",
     citationExisted |-> Truthy(caseData.citation)
                         /\ RowsWithCitation(records, caseData.citation) # {},
     textBlank |-> caseData.case_text = Undefined
                   \/ Trim(caseData.case_text) = "",
     wrote |-> Len(out.records) > Len(records),
     failure |-> IF o.wr = "error" THEN "insert failed"
                 ELSE IF o.up = "error" THEN "upsert failed" ELSE "",
     secondaryFailed |-> o.eu = "error",
     raised |-> out.raised]

Init ==
    /\ driver \in Drivers
    /\ upstream \in Upstreams
    /\ run = 1
    /\ pc = "start"
    /\ records = << >>
    /\ ledger = [u \in URLs |-> NoEntry]
    /\ faults = 0
    /\ netFaults = FALSE
    /\ sitemaps = << >>
    /\ pageIndex = StartPage
    /\ pageUrls = << >>
    /\ i = 0
    /\ checks = << >>
    /\ urlsToProcess = << >>
    /\ j = 0
    /\ fetches = << >>
    /\ results = << >>
    /\ k = 1
    /\ dispatched = {}
    /\ rowsAtStart = 0
    /\ lastIngest = NoIngest
    /\ jobRun = NoJobRun
    /\ newCasesFound = 0
    /\ sitemapsProcessed = 0
    /\ jobCalls = [complete |-> 0, fail |-> 0]
    /\ writers = << >>
    /\ acts = << >>
    /\ sections = << >>
    /\ scrapingSitemap = {}

\* runId = jobStart.runId
runId ==
    IF jobRun.present THEN "id" ELSE "null"

\* {new_cases_found: newCasesFound, pages_processed: sitemapsProcessed}
Metrics ==
    [new_cases_found |-> newCasesFound, pages_processed |-> sitemapsProcessed]

jobVars == << jobRun, newCasesFound, sitemapsProcessed, jobCalls >>

\* catch (error) of scrapFindLaws: failJob with the counters and
\* error.message, then the error is thrown again.  spent is the number of
\* store failures the step has met before the catch.
Catch(errorMessage, spent) ==
    \E o \in Lookups :
        /\ o # "ok" => (runId = "id" /\ faults + spent < MaxFaults)
        /\ faults' = faults + spent + (IF o # "ok" THEN 1 ELSE 0)
        /\ jobRun' = failJob(jobRun, runId, Metrics, errorMessage, o)
        /\ jobCalls' = [jobCalls EXCEPT !.fail = @ + 1]
        /\ pc' = "aborted"

storeVars == << records, ledger, faults, lastIngest >>
runVars == << driver, upstream, run, rowsAtStart >>
pageVars == << sitemaps, pageIndex, pageUrls, i >>
batchVars == << checks, urlsToProcess, j, fetches, results, k >>

\* Faulty variant of filterBatch: the slice is one locator too wide.
filterBatch_Wide ==
    IF driver = "us" THEN Slice(pageUrls, i, i + filterBatchSize + 1)
    ELSE pageUrls

filterBatch ==
    IF driver = "us" THEN Slice(pageUrls, i, i + filterBatchSize)
    ELSE pageUrls

\* Faulty variant of cloudFlareBatch: the survivors are dispatched at once.
cloudFlareBatch_All ==
    urlsToProcess

cloudFlareBatch ==
    IF driver = "us" THEN Slice(urlsToProcess, j, j + cloudFlareBatchSize)
    ELSE urlsToProcess

Pending == [p \in DOMAIN filterBatch |-> "pending"]

\* The driver script is started again (the next cron run); the store stays.
NextRun ==
    /\ pc \in {"completed", "aborted"}
    /\ run < MaxRuns
    /\ run' = run + 1
    /\ pc' = "start"
    /\ rowsAtStart' = Len(records)
    /\ dispatched' = {}
    /\ sitemaps' = << >>
    /\ pageIndex' = StartPage
    /\ pageUrls' = << >>
    /\ i' = 0
    /\ checks' = << >>
    /\ urlsToProcess' = << >>
    /\ j' = 0
    /\ fetches' = << >>
    /\ results' = << >>
    /\ k' = 1
    /\ lastIngest' = NoIngest
    /\ jobRun' = NoJobRun
    /\ newCasesFound' = 0
    /\ sitemapsProcessed' = 0
    /\ jobCalls' = [complete |-> 0, fail |-> 0]
    /\ UNCHANGED << driver, upstream, records, ledger, faults, netFaults,
                    sideVars >>

\* ---- tracked US case-law driver, scrapFindLaws
\* Faulty variant of US_StartJob: a start that fails ends the run.
US_StartJob_Blocking ==
    /\ driver = "us" /\ pc = "start"
    /\ \E o \in Lookups :
         /\ o # "ok" => faults < MaxFaults
         /\ faults' = IF o # "ok" THEN faults + 1 ELSE faults
         /\ jobRun' = startJob(o)
         /\ pc' = IF o = "ok" THEN "index" ELSE "aborted"
    /\ UNCHANGED << runVars, sideVars,
                    records, ledger, lastIngest, netFaults, pageVars,
                    batchVars, dispatched, newCasesFound, sitemapsProcessed,
                    jobCalls >>

\* const jobStart = await startJob(supabase, JOB_NAME): a failed start is
\* warned about and the run goes on without tracking.
US_StartJob ==
    /\ driver = "us" /\ pc = "start"
    /\ \E o \in Lookups :
         /\ o # "ok" => faults < MaxFaults
         /\ faults' = IF o # "ok" THEN faults + 1 ELSE faults
         /\ jobRun' = startJob(o)
    /\ pc' = "index"
    /\ UNCHANGED << runVars, sideVars,
                    records, ledger, lastIngest, netFaults, pageVars,
                    batchVars, dispatched, newCasesFound, sitemapsProcessed,
                    jobCalls >>

\* fetch(`/sitemaps/cases`) and .json(); slice(0, CONFIG.maxSitemaps).  A
\* thrown fetch or a non-JSON error body reaches the catch: failJob, rethrow.
US_FetchSitemaps ==
    /\ driver = "us" /\ pc = "index"
    /\ \E t \in {"ok", "fail"} :
         IF t = "ok"
         THEN /\ sitemaps' = Slice(SiteMapUrls, 0, maxSitemaps)
              /\ pc' = "sitemap"
              /\ UNCHANGED << netFaults, faults, jobRun, jobCalls >>
         ELSE /\ Catch("sitemap index failed", 0)
              /\ netFaults' = TRUE
              /\ UNCHANGED sitemaps
    /\ UNCHANGED << runVars, sideVars,
                    records, ledger, lastIngest, pageIndex, pageUrls,
                    i, batchVars, dispatched, newCasesFound,
                    sitemapsProcessed >>

\* for (siteMapUrl of sitemapsToProcess): fetch(`/pages?sitemap=`), .json();
\* sitemapsProcessed++.  A failure reaches the catch of the function.
US_FetchPages ==
    /\ driver = "us" /\ pc = "sitemap" /\ sitemaps # << >>
    /\ \E t \in {"ok", "fail"} :
         IF t = "ok"
         THEN /\ pageUrls' = PageUrlsOf(Head(sitemaps))
              /\ i' = 0
              /\ sitemapsProcessed' = sitemapsProcessed + 1
              /\ pc' = "filter"
              /\ UNCHANGED << netFaults, faults, jobRun, jobCalls >>
         ELSE /\ Catch("page urls failed", 0)
              /\ netFaults' = TRUE
              /\ UNCHANGED << pageUrls, i, sitemapsProcessed >>
    /\ UNCHANGED << runVars, sideVars,
                    records, ledger, lastIngest, sitemaps, pageIndex,
                    batchVars, dispatched, newCasesFound >>

\* The loop over the sitemaps is over: completeJob with the counters.
US_Complete ==
    /\ driver = "us" /\ pc = "sitemap" /\ sitemaps = << >>
    /\ \E o \in Lookups :
         /\ o # "ok" => (runId = "id" /\ faults < MaxFaults)
         /\ faults' = IF o # "ok" THEN faults + 1 ELSE faults
         /\ jobRun' = completeJob(jobRun, runId, Metrics, o)
    /\ jobCalls' = [jobCalls EXCEPT !.complete = @ + 1]
    /\ pc' = "completed"
    /\ UNCHANGED << runVars, sideVars,
                    records, ledger, lastIngest, netFaults, pageVars,
                    batchVars, dispatched, newCasesFound, sitemapsProcessed >>

\* for (i = 0; i < pageUrls.length; i += filterBatchSize): the checks of
\* the filter batch are all started by filterBatch.map.
US_BeginFilter ==
    /\ driver = "us" /\ pc = "filter" /\ i < Len(pageUrls)
    /\ checks' = Pending
    /\ pc' = "checking"
    /\ UNCHANGED << runVars, sideVars, jobVars,
                    storeVars, netFaults, pageVars, urlsToProcess,
                    j, fetches, results, k, dispatched >>

\* The filter loop is over: sleep(1000), next sitemap.
US_EndSitemap ==
    /\ driver = "us" /\ pc = "filter" /\ i >= Len(pageUrls)
    /\ sitemaps' = Tail(sitemaps)
    /\ pc' = "sitemap"
    /\ UNCHANGED << runVars, sideVars, jobVars,
                    storeVars, netFaults, pageIndex, pageUrls, i,
                    batchVars, dispatched >>

\* One checkIfUrlProcessed call of the batch settles.  A rejection rejects
\* Promise.all(checkPromises) and leaves the loops for the catch of the run.
US_Check(p) ==
    /\ driver = "us" /\ pc = "checking"
    /\ p \in DOMAIN checks /\ checks[p] = "pending"
    /\ \E o \in Lookups :
         /\ o # "ok" => faults < MaxFaults
         /\ checks' = [checks EXCEPT
                          ![p] = US_checkIfUrlProcessed(ledger, filterBatch[p], o)]
         /\ IF o = "throw"
            THEN Catch("lookup rejected", 1)
            ELSE /\ faults' = IF o = "ok" THEN faults ELSE faults + 1
                 /\ UNCHANGED << pc, jobRun, jobCalls >>
    /\ UNCHANGED << runVars, sideVars,
                    records, ledger, lastIngest, netFaults, pageVars,
                    urlsToProcess, j, fetches, results, k, dispatched,
                    newCasesFound, sitemapsProcessed >>

\* Faulty variant of UrlsToProcess: the filter is dropped.
UrlsToProcess_KeepAll(batch, chk) ==
    batch

\* checkedUrls.filter(item => !item.isProcessed).map(item => item.url)
UrlsToProcess(batch, chk) ==
    FilterSeq(batch, [p \in DOMAIN batch |-> AnsweredNo(chk[p])])

\* await Promise.all(checkPromises) resolves; urlsToProcess is computed.
US_EndFilter ==
    /\ driver = "us" /\ pc = "checking"
    /\ \A p \in DOMAIN checks : checks[p] \in {"yes", "no", "no_err"}
    /\ urlsToProcess' = UrlsToProcess(filterBatch, checks)
    /\ j' = 0
    /\ pc' = "dispatch"
    /\ UNCHANGED << runVars, sideVars, jobVars,
                    storeVars, netFaults, pageVars, checks, fetches,
                    results, k, dispatched >>

\* for (j = 0; j < urlsToProcess.length; j += cloudFlareBatchSize):
\* cloudFlareBatch.map starts one fetchWithRetry per url of the batch.
US_BeginDispatch ==
    /\ driver = "us" /\ pc = "dispatch" /\ j < Len(urlsToProcess)
    /\ fetches' = [p \in DOMAIN cloudFlareBatch |-> NewFetch]
    /\ dispatched' = dispatched \cup Range(cloudFlareBatch)
    /\ pc' = "fetching"
    /\ UNCHANGED << runVars, sideVars,
                    jobVars, storeVars, netFaults, pageVars, checks,
                    urlsToProcess, j, results, k >>

\* The dispatch loop is over: next filter batch.
US_EndFilterBatch ==
    /\ driver = "us" /\ pc = "dispatch" /\ j >= Len(urlsToProcess)
    /\ i' = i + filterBatchSize
    /\ checks' = << >>
    /\ urlsToProcess' = << >>
    /\ j' = 0
    /\ pc' = "filter"
    /\ UNCHANGED << runVars, sideVars, jobVars,
                    storeVars, netFaults, sitemaps, pageIndex,
                    pageUrls, fetches, results, k, dispatched >>

\* One request of one fetchWithRetry call of the batch ends.
US_FetchAttempt(p) ==
    /\ driver = "us" /\ pc = "fetching"
    /\ p \in DOMAIN fetches /\ fetches[p].st = "flying"
    /\ \E t \in Transports :
         /\ fetches' = [fetches EXCEPT ![p] = fetchWithRetry(@, t)]
         /\ netFaults' = (netFaults \/ t # "ok")
    /\ UNCHANGED << runVars, sideVars, jobVars,
                    storeVars, pageVars, checks, urlsToProcess, j,
                    results, k, dispatched, pc >>

\* await Promise.all(fetchPromises): response.json() of the ok responses.
US_Collect ==
    /\ driver = "us" /\ pc = "fetching"
    /\ \A p \in DOMAIN fetches : fetches[p].st # "flying"
    /\ results' = [p \in DOMAIN fetches |->
                     FetchResult(cloudFlareBatch[p], fetches[p],
                                 scrapeCasesPage(upstream[cloudFlareBatch[p]]))]
    /\ fetches' = << >>
    /\ k' = 1
    /\ pc' = "draining"
    /\ UNCHANGED << runVars, sideVars,
                    jobVars, storeVars, netFaults, pageVars, checks,
                    urlsToProcess, j, dispatched >>

\* The fields insertCaseLaw is handed: {court_name, ..., case_text, citation}
CaseDataOf(result) ==
    [citation |-> result.citation, case_text |-> result.case_text]

\* if (result.status === 'error') { console.log(result); continue; }
DrainSkip ==
    /\ pc = "draining" /\ k <= Len(results)
    /\ results[k].status = "error"
    /\ k' = k + 1
    /\ UNCHANGED << runVars, sideVars,
                    jobVars, storeVars, netFaults, pageVars, checks,
                    urlsToProcess, j, fetches, results, dispatched, pc >>

\* The store calls an insertCaseLaw call makes for caseData, in order; the
\* others are not made and are not given an outcome.
MadeCalls(caseData, o) ==
    LET lk == driver = "sg" /\ Truthy(caseData.citation)
        done == driver = "sg"
                /\ \/ lk /\ checkIfCitationExists(records, caseData.citation, o.lk)
                   \/ caseData.case_text # Undefined
                      /\ Trim(caseData.case_text) = ""
        wr == ~done /\ ~(driver = "sg" /\ caseData.case_text = Undefined)
        up == wr /\ o.wr = "ok"
        eu == ~done /\ ~(up /\ o.up = "ok")
    IN  [lk |-> lk, wr |-> wr, up |-> up, eu |-> eu]

Canonical(caseData, o) ==
    LET m == MadeCalls(caseData, o)
    IN  /\ ~m.lk => o.lk = "ok"
        /\ ~m.wr => o.wr = "ok"
        /\ ~m.up => o.up = "ok"
        /\ ~m.eu => o.eu = "ok"

insertCaseLaw(caseData, sourceUrl, o) ==
    IF driver = "us"
    THEN US_insertCaseLaw(records, ledger, caseData, sourceUrl, o)
    ELSE SG_insertCaseLaw(records, ledger, caseData, sourceUrl, o)

\* Faulty variant of DrainInsert: an error thrown by insertCaseLaw is not
\* caught by the loop and ends the run.
DrainInsert_Uncaught ==
    /\ pc = "draining" /\ k <= Len(results)
    /\ results[k].status # "error"
    /\ \E o \in StoreOutcomes :
         LET caseData == CaseDataOf(results[k])
             out == insertCaseLaw(caseData, results[k].url, o)
         IN  /\ Canonical(caseData, o)
             /\ faults + FaultsOf(o) <= MaxFaults
             /\ faults' = faults + FaultsOf(o)
             /\ records' = out.records
             /\ ledger' = out.ledger
             /\ lastIngest' = Ingest(caseData, results[k].url, o, out)
             /\ newCasesFound' =
                    IF driver = "us" /\ out.ret.kind # "throw"
                    THEN newCasesFound + 1 ELSE newCasesFound
             /\ pc' = IF out.ret.kind = "throw" THEN "aborted" ELSE pc
    /\ k' = k + 1
    /\ UNCHANGED << runVars, sideVars,
                    netFaults, pageVars, checks, urlsToProcess, j,
                    fetches, results, dispatched, jobRun,
                    sitemapsProcessed, jobCalls >>

\* try { await insertCaseLaw({...}, result.url) } catch (error) { log }
DrainInsert ==
    /\ pc = "draining" /\ k <= Len(results)
    /\ results[k].status # "error"
    /\ \E o \in StoreOutcomes :
         LET caseData == CaseDataOf(results[k])
             out == insertCaseLaw(caseData, results[k].url, o)
         IN  /\ Canonical(caseData, o)
             /\ faults + FaultsOf(o) <= MaxFaults
             /\ faults' = faults + FaultsOf(o)
             /\ records' = out.records
             /\ ledger' = out.ledger
             /\ lastIngest' = Ingest(caseData, results[k].url, o, out)
             /\ newCasesFound' =
                    IF driver = "us" /\ out.ret.kind # "throw"
                    THEN newCasesFound + 1 ELSE newCasesFound
    /\ k' = k + 1
    /\ UNCHANGED << runVars, sideVars,
                    netFaults, pageVars, checks, urlsToProcess, j,
                    fetches, results, dispatched, pc, jobRun,
                    sitemapsProcessed, jobCalls >>

\* The batch is drained: sleep(500), next dispatch batch.
US_EndDrain ==
    /\ driver = "us" /\ pc = "draining" /\ k > Len(results)
    /\ j' = j + cloudFlareBatchSize
    /\ results' = << >>
    /\ k' = 1
    /\ lastIngest' = NoIngest
    /\ pc' = "dispatch"
    /\ UNCHANGED << runVars, sideVars, jobVars,
                    records, ledger, faults, netFaults, pageVars,
                    checks, urlsToProcess, fetches, dispatched >>

\* ---- Singapore case-law driver, scrapeSingaporeCaseLaws
\* if (!data.case_text || data.case_text.trim().length === 0)
BlankText(t) ==
    t = Undefined \/ Trim(t) = ""

\* Faulty variant of SG_fetchStep: the second fetch is made after every ok
\* response, whatever its case_text.
SG_fetchStep_AlwaysSecond(f, t, data) ==
    LET g == fetchWithRetry(f, t)
    IN  IF f.pass = 1 /\ g.st = "ok"
        THEN [pass |-> 2, i |-> 0, st |-> "flying"]
        ELSE IF f.pass = 2 /\ g.st = "failed"
        THEN [g EXCEPT !.st = "ok"]
        ELSE g

\* The async callback of fetchPromises, one request of it ending as t.  A
\* first fetchWithRetry that returns an ok response with a blank case_text is
\* followed by a second one with &isOld=true, whose data replaces the first
\* only when it is ok; the marker of the first is an error result.
SG_fetchStep(f, t, data) ==
    LET g == fetchWithRetry(f, t)
    IN  IF f.pass = 1 /\ g.st = "ok" /\ BlankText(data.case_text)
        THEN [pass |-> 2, i |-> 0, st |-> "flying"]
        ELSE IF f.pass = 2 /\ g.st = "failed"
        THEN [g EXCEPT !.st = "ok"]
        ELSE g

\* Faulty variant of WithinLimit: one page more is let through.
WithinLimit_OneMore(n) ==
    n <= maxPages + 1

\* pageIndex <= CONFIG.maxPages, of the while condition.
WithinLimit(n) ==
    n <= maxPages

\* Faulty variant of SG_FetchListing: a page without locators is passed
\* over and the next page requested.
SG_FetchListing_SkipEmpty ==
    /\ driver = "sg" /\ pc \in {"start", "page"}
    /\ WithinLimit(pageIndex)
    /\ \E t \in Transports, site \in {"ok", "nonok"} :
         LET caseUrls == getCaseLawsList(pageIndex, site)
         IN  /\ t # "ok" => site = "ok"
             /\ netFaults' = (netFaults \/ t # "ok")
             /\ IF t = "throw"
                THEN /\ pc' = "aborted"
                     /\ UNCHANGED << pageUrls, checks, pageIndex >>
                ELSE IF t = "nonok"
                THEN /\ pc' = "completed"
                     /\ UNCHANGED << pageUrls, checks, pageIndex >>
                ELSE IF caseUrls = << >>
                THEN /\ pc' = "page"
                     /\ pageIndex' = pageIndex + 1
                     /\ UNCHANGED << pageUrls, checks >>
                ELSE /\ pageUrls' = Slice(caseUrls, 0, maxEntriesPerPage)
                     /\ checks' = [p \in DOMAIN pageUrls' |-> "pending"]
                     /\ pc' = "checking"
                     /\ UNCHANGED pageIndex
    /\ UNCHANGED << runVars, sideVars,
                    jobVars, storeVars, sitemaps, i, urlsToProcess,
                    j, fetches, results, k, dispatched >>

\* while (hasMorePages && pageIndex <= maxPages): fetch the listing page.
\* A non-ok response clears hasMorePages, an empty page breaks, a thrown
\* fetch reaches the catch of the function; else the checks of
\* casesToProcess = caseUrls.slice(0, maxEntriesPerPage) are started.
SG_FetchListing ==
    /\ driver = "sg" /\ pc \in {"start", "page"}
    /\ WithinLimit(pageIndex)
    /\ \E t \in Transports, site \in {"ok", "nonok"} :
         LET caseUrls == getCaseLawsList(pageIndex, site)
         IN  /\ t # "ok" => site = "ok"
             /\ netFaults' = (netFaults \/ t # "ok")
             /\ IF t = "throw"
                THEN /\ pc' = "aborted"
                     /\ UNCHANGED << pageUrls, checks >>
                ELSE IF t = "nonok" \/ caseUrls = << >>
                THEN /\ pc' = "completed"
                     /\ UNCHANGED << pageUrls, checks >>
                ELSE /\ pageUrls' = Slice(caseUrls, 0, maxEntriesPerPage)
                     /\ checks' = [p \in DOMAIN pageUrls' |-> "pending"]
                     /\ pc' = "checking"
    /\ UNCHANGED << runVars, sideVars, jobVars,
                    storeVars, sitemaps, pageIndex, i, urlsToProcess,
                    j, fetches, results, k, dispatched >>

\* The while condition fails on pageIndex <= maxPages: the loop is left.
SG_LimitReached ==
    /\ driver = "sg" /\ pc \in {"start", "page"}
    /\ ~WithinLimit(pageIndex)
    /\ pc' = "completed"
    /\ UNCHANGED << runVars, sideVars, jobVars,
                    storeVars, netFaults, pageVars, batchVars,
                    dispatched >>

\* One checkIfUrlProcessed call of the page settles.
SG_Check(p) ==
    /\ driver = "sg" /\ pc = "checking"
    /\ p \in DOMAIN checks /\ checks[p] = "pending"
    /\ checks' = [checks EXCEPT
                     ![p] = SG_checkIfUrlProcessed(ledger, filterBatch[p])]
    /\ UNCHANGED << runVars, sideVars, jobVars,
                    storeVars, netFaults, pageVars, urlsToProcess,
                    j, fetches, results, k, dispatched, pc >>

\* await Promise.all(checkPromises); urlsToProcess.map starts the fetches
\* of the whole page at once.
SG_EndFilter ==
    /\ driver = "sg" /\ pc = "checking"
    /\ \A p \in DOMAIN checks : checks[p] \in {"yes", "no", "no_err"}
    /\ urlsToProcess' = UrlsToProcess(filterBatch, checks)
    /\ fetches' = [p \in DOMAIN urlsToProcess' |-> NewFetch]
    /\ dispatched' = dispatched \cup Range(urlsToProcess')
    /\ pc' = "fetching"
    /\ UNCHANGED << runVars, sideVars, jobVars,
                    storeVars, netFaults, pageVars, checks, j,
                    results, k >>

\* One request of one callback of fetchPromises ends.
SG_FetchAttempt(p) ==
    /\ driver = "sg" /\ pc = "fetching"
    /\ p \in DOMAIN fetches /\ fetches[p].st = "flying"
    /\ \E t \in Transports :
         /\ fetches' = [fetches EXCEPT
                          ![p] = SG_fetchStep(@, t,
                                   scrapeCaseLaw(upstream[cloudFlareBatch[p]]))]
         /\ netFaults' = (netFaults \/ t # "ok")
    /\ UNCHANGED << runVars, sideVars, jobVars,
                    storeVars, pageVars, checks, urlsToProcess, j,
                    results, k, dispatched, pc >>

\* Faulty variant of SG_Collect: the results are taken when the first fetch
\* of the page is settled.
SG_Collect_Early ==
    /\ driver = "sg" /\ pc = "fetching"
    /\ \E p \in DOMAIN fetches : fetches[p].st # "flying"
    /\ results' = [p \in DOMAIN fetches |->
                     FetchResult(cloudFlareBatch[p], fetches[p],
                                 scrapeCaseLaw(upstream[cloudFlareBatch[p]]))]
    /\ fetches' = << >>
    /\ k' = 1
    /\ pc' = "draining"
    /\ UNCHANGED << runVars, sideVars,
                    jobVars, storeVars, netFaults, pageVars, checks,
                    urlsToProcess, j, dispatched >>

\* Faulty variant of SG_Collect: the results come in the reverse of the
\* order of the locators.
SG_Collect_Reversed ==
    /\ driver = "sg" /\ pc = "fetching"
    /\ \A p \in DOMAIN fetches : fetches[p].st # "flying"
    /\ results' = [p \in DOMAIN fetches |->
                     LET q == Len(fetches) + 1 - p
                     IN  FetchResult(cloudFlareBatch[q], fetches[q],
                                     scrapeCaseLaw(upstream[cloudFlareBatch[q]]))]
    /\ fetches' = << >>
    /\ k' = 1
    /\ pc' = "draining"
    /\ UNCHANGED << runVars, sideVars,
                    jobVars, storeVars, netFaults, pageVars, checks,
                    urlsToProcess, j, dispatched >>

\* await Promise.all(fetchPromises)
SG_Collect ==
    /\ driver = "sg" /\ pc = "fetching"
    /\ \A p \in DOMAIN fetches : fetches[p].st # "flying"
    /\ results' = [p \in DOMAIN fetches |->
                     FetchResult(cloudFlareBatch[p], fetches[p],
                                 scrapeCaseLaw(upstream[cloudFlareBatch[p]]))]
    /\ fetches' = << >>
    /\ k' = 1
    /\ pc' = "draining"
    /\ UNCHANGED << runVars, sideVars,
                    jobVars, storeVars, netFaults, pageVars, checks,
                    urlsToProcess, j, dispatched >>

\* Faulty variant of SG_EndPage: the page is left before its results are
\* all drained.
SG_EndPage_Early ==
    /\ driver = "sg" /\ pc = "draining"
    /\ pageIndex' = pageIndex + 1
    /\ pageUrls' = << >>
    /\ checks' = << >>
    /\ urlsToProcess' = << >>
    /\ results' = << >>
    /\ k' = 1
    /\ lastIngest' = NoIngest
    /\ pc' = "page"
    /\ UNCHANGED << runVars, sideVars,
                    jobVars, records, ledger, faults, netFaults,
                    sitemaps, i, j, fetches, dispatched >>

\* Faulty variant of SG_EndPage: pageIndex is not incremented.
SG_EndPage_NoAdvance ==
    /\ driver = "sg" /\ pc = "draining" /\ k > Len(results)
    /\ pageIndex' = pageIndex
    /\ pageUrls' = << >>
    /\ checks' = << >>
    /\ urlsToProcess' = << >>
    /\ results' = << >>
    /\ k' = 1
    /\ lastIngest' = NoIngest
    /\ pc' = "page"
    /\ UNCHANGED << runVars, sideVars, jobVars, records, ledger, faults,
                    netFaults, sitemaps, i, j, fetches, dispatched >>

\* The page is drained: sleep(requestInterval); pageIndex++.
SG_EndPage ==
    /\ driver = "sg" /\ pc = "draining" /\ k > Len(results)
    /\ pageIndex' = pageIndex + 1
    /\ pageUrls' = << >>
    /\ checks' = << >>
    /\ urlsToProcess' = << >>
    /\ results' = << >>
    /\ k' = 1
    /\ lastIngest' = NoIngest
    /\ pc' = "page"
    /\ UNCHANGED << runVars, sideVars, jobVars,
                    records, ledger, faults, netFaults, sitemaps, i,
                    j, fetches, dispatched >>

SG_Next ==
    \/ SG_FetchListing
    \/ SG_LimitReached
    \/ \E p \in 1..maxEntriesPerPage : SG_Check(p)
    \/ SG_EndFilter
    \/ \E p \in 1..maxEntriesPerPage : SG_FetchAttempt(p)
    \/ SG_Collect
    \/ SG_EndPage

US_Next ==
    \/ US_StartJob
    \/ US_FetchSitemaps
    \/ US_FetchPages
    \/ US_Complete
    \/ US_BeginFilter
    \/ US_EndSitemap
    \/ \E p \in 1..filterBatchSize : US_Check(p)
    \/ US_EndFilter
    \/ US_BeginDispatch
    \/ US_EndFilterBatch
    \/ \E p \in 1..cloudFlareBatchSize : US_FetchAttempt(p)
    \/ US_Collect
    \/ US_EndDrain

Next ==
    \/ NextRun
    \/ US_Next
    \/ SG_Next
    \/ DrainSkip
    \/ DrainInsert

Spec == Init /\ [][Next]_vars

\* ------------------------------------- two overlapping Singapore runs
\* Two runs of scrapeSingaporeCaseLaws (two cron invocations that overlap)
\* each inside one insertCaseLaw call, against the same tables.  A call is
\* followed through its awaited store calls: the citation lookup, the
\* record insert, the success upsert, the error upsert of the catch.
Writers == {1, 2}

\* insertCaseLaw(result, result.url) is entered with the result of an ok
\* scrape of url.
NewWriter(url) ==
    [pc |-> "lookup", url |-> url,
     caseData |-> CaseDataOf(FetchResult(url, [NewFetch EXCEPT !.st = "ok"],
                                         scrapeCaseLaw(upstream[url]))),
     msg |-> "", ret |-> NullRet]

OverlapInit ==
    /\ driver = "sg"
    /\ upstream \in Upstreams
    /\ writers \in { [w \in Writers |-> NewWriter(f[w])] :
                        f \in [Writers -> URLs] }
    /\ run = 1
    /\ pc = "draining"
    /\ records = << >>
    /\ ledger = [u \in URLs |-> NoEntry]
    /\ faults = 0
    /\ netFaults = FALSE
    /\ sitemaps = << >>
    /\ pageIndex = StartPage
    /\ pageUrls = << >>
    /\ i = 0
    /\ checks = << >>
    /\ urlsToProcess = << >>
    /\ j = 0
    /\ fetches = << >>
    /\ results = << >>
    /\ k = 1
    /\ dispatched = {}
    /\ rowsAtStart = 0
    /\ lastIngest = NoIngest
    /\ jobRun = NoJobRun
    /\ newCasesFound = 0
    /\ sitemapsProcessed = 0
    /\ jobCalls = [complete |-> 0, fail |-> 0]
    /\ acts = << >>
    /\ sections = << >>
    /\ scrapingSitemap = {}

overlapFrame ==
    << driver, upstream, run, pc, netFaults, sitemaps, pageIndex, pageUrls,
       i, checks, urlsToProcess, j, fetches, results, k, dispatched,
       rowsAtStart, lastIngest, jobVars, acts, sections, scrapingSitemap >>

\* if (caseData.citation) { await checkIfCitationExists(...) } and the test
\* of case_text that follows it: the call returns null, reaches its catch
\* (case_text undefined: TypeError) or goes on to the insert.
W_Lookup(w) ==
    /\ writers[w].pc = "lookup"
    /\ \E o \in {"ok", "error"} :
         LET d == writers[w].caseData
             exists == checkIfCitationExists(records, d.citation, o)
         IN  /\ o = "error" => (Truthy(d.citation) /\ faults < MaxFaults)
             /\ faults' = IF o = "error" THEN faults + 1 ELSE faults
             /\ writers' = [writers EXCEPT ![w] =
                    IF Truthy(d.citation) /\ exists
                    THEN [@ EXCEPT !.pc = "done", !.ret = NullRet]
                    ELSE IF d.case_text = Undefined
                    THEN [@ EXCEPT !.pc = "catch", !.msg = "TypeError"]
                    ELSE IF Trim(d.case_text) = ""
                    THEN [@ EXCEPT !.pc = "done", !.ret = NullRet]
                    ELSE [@ EXCEPT !.pc = "insert"]]
    /\ UNCHANGED << overlapFrame, records, ledger >>

\* await supabase.from('caselaw_singapore').insert([...]).select('id')
\* .single(); if (error) throw error
W_Insert(w) ==
    /\ writers[w].pc = "insert"
    /\ \E o \in {"ok", "error"} :
         /\ o = "error" => faults < MaxFaults
         /\ faults' = IF o = "error" THEN faults + 1 ELSE faults
         /\ IF o = "ok"
            THEN /\ records' = Append(records, Row(writers[w].caseData,
                                                   writers[w].url))
                 /\ writers' = [writers EXCEPT ![w] =
                        [@ EXCEPT !.pc = "upsert",
                                  !.ret = IdRet(Len(records) + 1)]]
            ELSE /\ records' = records
                 /\ writers' = [writers EXCEPT ![w] =
                        [@ EXCEPT !.pc = "catch", !.msg = "insert failed"]]
    /\ UNCHANGED << overlapFrame, ledger >>

\* await upsert([{url, case_id: data.id, processed: true, ...}]);
\* if (urlInsertError) throw urlInsertError; return data.id
W_Upsert(w) ==
    /\ writers[w].pc = "upsert"
    /\ \E o \in {"ok", "error"} :
         /\ o = "error" => faults < MaxFaults
         /\ faults' = IF o = "error" THEN faults + 1 ELSE faults
         /\ IF o = "ok"
            THEN /\ ledger' = UpsertSuccess(ledger, writers[w].url,
                                            writers[w].ret.id)
                 /\ writers' = [writers EXCEPT ![w] = [@ EXCEPT !.pc = "done"]]
            ELSE /\ ledger' = ledger
                 /\ writers' = [writers EXCEPT ![w] =
                        [@ EXCEPT !.pc = "catch", !.msg = "upsert failed"]]
    /\ UNCHANGED << overlapFrame, records >>

\* catch (error) { await upsert([{url, processed: false, status: 'error',
\* error_message}]); throw error; }
W_Catch(w) ==
    /\ writers[w].pc = "catch"
    /\ \E o \in {"ok", "error"} :
         /\ o = "error" => faults < MaxFaults
         /\ faults' = IF o = "error" THEN faults + 1 ELSE faults
         /\ ledger' = IF o = "ok"
                      THEN UpsertError(ledger, writers[w].url, writers[w].msg)
                      ELSE ledger
    /\ writers' = [writers EXCEPT ![w] = [@ EXCEPT !.pc = "done",
                                                   !.ret = ThrowRet]]
    /\ UNCHANGED << overlapFrame, records >>

OverlapNext ==
    \/ \E w \in Writers : W_Lookup(w)
    \/ \E w \in Writers : W_Insert(w)
    \/ \E w \in Writers : W_Upsert(w)
    \/ \E w \in Writers : W_Catch(w)

Overlap == OverlapInit /\ [][OverlapNext]_vars

\* ------------------------------------------- the acts driver (findlaw)
\* src/us/acts_index.js.  A url is kept as its parts between slashes, what
\* String.prototype.split('/') gives, so that includes('/cfr/') and the
\* act identifier are computed from it.
SiteMapMn == << "codes.findlaw.com", "mn", "sitemap.xml" >>
SiteMapCfr == << "codes.findlaw.com", "cfr", "sitemap.xml" >>
PageS1 == << "codes.findlaw.com", "mn", "s1", "" >>
PageS2 == << "codes.findlaw.com", "mn", "s2", "" >>

\* What /api/sitemaps/acts and /api/pages?sitemap= serve.
ActsSiteMapUrls == << SiteMapMn, SiteMapCfr >>

ActsPageUrlsOf(s) ==
    IF s = SiteMapMn THEN << PageS1, PageS2 >> ELSE << >>

ActsPages == {PageS1, PageS2}

\* config.batchSize: 20 in the source; one url a batch, so that a sitemap
\* takes several batches.
batchSize == 1

\* The remote section pages: the h1 gives the act name (or none), the
\* request of the worker may fail.
TitledPage == [net |-> "ok", act_name |-> "A", text |-> "t"]
UntitledPage == [net |-> "ok", act_name |-> "", text |-> "t"]
DownSection == [net |-> "fail", act_name |-> "", text |-> ""]

ActsUpstreams ==
    { f \in [ActsPages -> {TitledPage, UntitledPage, DownSection}] :
        f[PageS1] # UntitledPage }

\* siteMapUrl.includes('/cfr/'): a part other than the first and the last
\* of the url is "cfr".
IncludesCfr(parts) ==
    \E x \in 2..(Len(parts) - 1) : parts[x] = "cfr"

\* extractActIdentifierFromUrl: urlParts[urlParts.length - 2]
extractActIdentifierFromUrl(parts) ==
    parts[Len(parts) - 1]

\* Worker: url.match(/\/([a-z0-9\-]+)\/$/i), else "No Act ID found".
ActIdOfUrl(parts) ==
    IF Len(parts) >= 2 /\ parts[Len(parts)] = ""
       /\ parts[Len(parts) - 1] # ""
    THEN parts[Len(parts) - 1]
    ELSE "No Act ID found"

\* Worker, GET /api/scrape/acts: the JSON body of its 200 response; a
\* failed upstream request is answered {error}.
scrapeActsPage(url, page) ==
    IF page.net # "ok"
    THEN [error |-> "scrape failed", act_name |-> Undefined,
          act_id |-> Undefined, section_text |-> Undefined]
    ELSE [error |-> Undefined, act_name |-> OrNotFound(page.act_name),
          act_id |-> OrNotFound(ActIdOfUrl(url)),
          section_text |-> OrNotFound(Squeeze(page.text))]

\* The rows .eq('act_name', actName) selects: a row without name (NULL) is
\* selected by no value, and undefined is sent as the text 'undefined'.
ActsNamed(tbl, actName) ==
    IF actName = Undefined THEN {}
    ELSE { x \in DOMAIN tbl : tbl[x].act_name = actName }

\* Faulty variant of getExistingActId: the act is never found.
getExistingActId_Blind(tbl, actName, o) ==
    IF o # "ok" THEN ThrowRet ELSE NullRet

\* getExistingActId(actName), the query ending as o.  single() gives the
\* row when exactly one matches and error PGRST116 otherwise, which is
\* answered null; another error, or a rejected call, is thrown.
getExistingActId(tbl, actName, o) ==
    IF o # "ok" THEN ThrowRet
    ELSE IF Cardinality(ActsNamed(tbl, actName)) = 1
    THEN IdRet(CHOOSE x \in ActsNamed(tbl, actName) : TRUE)
    ELSE NullRet

\* How the store calls of one insertAct / insertSection pair end: lk the
\* lookup of the act, wr the insert of the act, ws that of the section.
ActOutcomes ==
    [lk : {"ok", "error"}, wr : {"ok", "error"}, ws : {"ok", "error"}]

\* insertAct(actName): the table and the act id returned (or the throw).
insertAct(tbl, actName, o) ==
    LET existingActId == getExistingActId(tbl, actName, o.lk)
    IN  IF existingActId.kind # "null"
        THEN [acts |-> tbl, ret |-> existingActId]
        ELSE IF o.wr = "ok"
        THEN [acts |-> Append(tbl, [act_name |-> actName]),
              ret |-> IdRet(Len(tbl) + 1)]
        ELSE [acts |-> tbl, ret |-> ThrowRet]

\* insertSection(actId, sectionData): missing fields are logged only.
insertSection(secs, actId, sectionData, o) ==
    IF o = "ok"
    THEN Append(secs, [act_id |-> actId,
                       act_identifier |-> sectionData.act_id,
                       section_content |-> sectionData.section_text])
    ELSE secs

\* checkSectionExistsByUrl(url), the query ending as o: single() over the
\* sections whose additional contains the act identifier of the url; every
\* error is answered false.
checkSectionExistsByUrl(secs, url, o) ==
    /\ o = "ok"
    /\ Cardinality({ x \in DOMAIN secs :
           secs[x].act_identifier = extractActIdentifierFromUrl(url) }) = 1

\* Faulty variant of checkIfProcessed: the marker is never found.
checkIfProcessed_Never(tbl, siteMapUrl, o) ==
    IF o = "throw" THEN "rejected"
    ELSE IF o = "error" THEN "no_err"
    ELSE "no"

\* checkIfProcessed(siteMapUrl), the query ending as o: a returned error is
\* answered false, a rejected call is not caught.
checkIfProcessed(tbl, siteMapUrl, o) ==
    IF o = "throw" THEN "rejected"
    ELSE IF o = "error" THEN "no_err"
    ELSE IF siteMapUrl \in tbl THEN "yes" ELSE "no"

\* upsertSiteMap(siteMapUrl): checkIfProcessed again, then an insert whose
\* error is only logged.
upsertSiteMap(tbl, siteMapUrl, lk, wr) ==
    IF checkIfProcessed(tbl, siteMapUrl, lk) = "yes" \/ wr # "ok" THEN tbl
    ELSE tbl \cup {siteMapUrl}

ActsInit ==
    /\ driver = "acts"
    /\ upstream \in ActsUpstreams
    /\ run = 1
    /\ pc = "start"
    /\ acts = << >>
    /\ sections = << >>
    /\ scrapingSitemap = {}
    /\ faults = 0
    /\ netFaults = FALSE
    /\ sitemaps = << >>
    /\ pageUrls = << >>
    /\ i = 0
    /\ fetches = << >>
    /\ results = << >>
    /\ k = 1
    /\ records = << >>
    /\ ledger = [u \in URLs |-> NoEntry]
    /\ pageIndex = StartPage
    /\ checks = << >>
    /\ urlsToProcess = << >>
    /\ j = 0
    /\ dispatched = {}
    /\ rowsAtStart = 0
    /\ lastIngest = NoIngest
    /\ jobRun = NoJobRun
    /\ newCasesFound = 0
    /\ sitemapsProcessed = 0
    /\ jobCalls = [complete |-> 0, fail |-> 0]
    /\ writers = << >>

\* What the acts driver never touches.
actsFrame ==
    << driver, upstream, records, ledger, pageIndex, checks, urlsToProcess,
       j, dispatched, rowsAtStart, lastIngest, jobVars, writers >>

actsTables == << acts, sections, scrapingSitemap >>

\* const batch = pageUrls.slice(i, i + config.batchSize)
batch ==
    Slice(pageUrls, i, i + batchSize)

\* The script is started again; the tables stay.
Acts_NextRun ==
    /\ driver = "acts" /\ pc \in {"completed", "aborted"}
    /\ run < MaxRuns
    /\ run' = run + 1
    /\ pc' = "start"
    /\ sitemaps' = << >>
    /\ pageUrls' = << >>
    /\ i' = 0
    /\ fetches' = << >>
    /\ results' = << >>
    /\ k' = 1
    /\ UNCHANGED << actsFrame, actsTables, faults, netFaults >>

\* fetch(`/sitemaps/acts`) and .json(): nothing catches a failure, the
\* promise of scrapFindLaws rejects.
Acts_FetchSitemaps ==
    /\ driver = "acts" /\ pc = "start"
    /\ \E t \in {"ok", "fail"} :
         IF t = "ok"
         THEN /\ sitemaps' = ActsSiteMapUrls
              /\ pc' = "sitemap"
              /\ UNCHANGED netFaults
         ELSE /\ pc' = "aborted"
              /\ netFaults' = TRUE
              /\ UNCHANGED sitemaps
    /\ UNCHANGED << actsFrame, actsTables, run, faults, pageUrls, i, fetches,
                    results, k >>

\* if (siteMapUrl.includes('/cfr/')) continue
Acts_SkipCfr ==
    /\ driver = "acts" /\ pc = "sitemap" /\ sitemaps # << >>
    /\ IncludesCfr(Head(sitemaps))
    /\ sitemaps' = Tail(sitemaps)
    /\ UNCHANGED << actsFrame, actsTables, run, pc, faults, netFaults,
                    pageUrls, i, fetches, results, k >>

\* const isProcessed = await checkIfProcessed(siteMapUrl);
\* if (isProcessed) continue
Acts_CheckProcessed ==
    /\ driver = "acts" /\ pc = "sitemap" /\ sitemaps # << >>
    /\ ~IncludesCfr(Head(sitemaps))
    /\ \E o \in Lookups :
         LET isProcessed == checkIfProcessed(scrapingSitemap,
                                             Head(sitemaps), o)
         IN  /\ o # "ok" => faults < MaxFaults
             /\ faults' = IF o = "ok" THEN faults ELSE faults + 1
             /\ IF isProcessed = "rejected"
                THEN pc' = "aborted" /\ UNCHANGED sitemaps
                ELSE IF isProcessed = "yes"
                THEN pc' = "sitemap" /\ sitemaps' = Tail(sitemaps)
                ELSE pc' = "pages" /\ UNCHANGED sitemaps
    /\ UNCHANGED << actsFrame, actsTables, run, netFaults, pageUrls, i,
                    fetches, results, k >>

\* fetch(`/pages?sitemap=`) and .json(); a failure is not caught.
Acts_FetchPages ==
    /\ driver = "acts" /\ pc = "pages"
    /\ \E t \in {"ok", "fail"} :
         IF t = "ok"
         THEN /\ pageUrls' = ActsPageUrlsOf(Head(sitemaps))
              /\ i' = 0
              /\ pc' = "batch"
              /\ UNCHANGED netFaults
         ELSE /\ pc' = "aborted"
              /\ netFaults' = TRUE
              /\ UNCHANGED << pageUrls, i >>
    /\ UNCHANGED << actsFrame, actsTables, run, faults, sitemaps, fetches,
                    results, k >>

\* for (i = 0; i < pageUrls.length; i += batchSize): batch.map starts one
\* callback per url, each with its checkSectionExistsByUrl call.
Acts_BeginBatch ==
    /\ driver = "acts" /\ pc = "batch" /\ i < Len(pageUrls)
    /\ fetches' = [p \in DOMAIN batch |-> [NewFetch EXCEPT !.st = "checking"]]
    /\ pc' = "fetching"
    /\ UNCHANGED << actsFrame, actsTables, run, faults, netFaults, sitemaps,
                    pageUrls, i, results, k >>

\* The checkSectionExistsByUrl call of one callback settles: the url is
\* skipped, or fetchWithRetry is called for it.
Acts_SectionCheck(p) ==
    /\ driver = "acts" /\ pc = "fetching"
    /\ p \in DOMAIN fetches /\ fetches[p].st = "checking"
    /\ \E o \in {"ok", "error"} :
         /\ o # "ok" => faults < MaxFaults
         /\ faults' = IF o = "ok" THEN faults ELSE faults + 1
         /\ fetches' = [fetches EXCEPT ![p].st =
                          IF checkSectionExistsByUrl(sections, batch[p], o)
                          THEN "skipped" ELSE "flying"]
    /\ UNCHANGED << actsFrame, actsTables, run, pc, netFaults, sitemaps,
                    pageUrls, i, results, k >>

\* One request of the fetchWithRetry call of one callback ends.
Acts_FetchAttempt(p) ==
    /\ driver = "acts" /\ pc = "fetching"
    /\ p \in DOMAIN fetches /\ fetches[p].st = "flying"
    /\ \E t \in Transports :
         /\ fetches' = [fetches EXCEPT ![p] = fetchWithRetry(@, t)]
         /\ netFaults' = (netFaults \/ t # "ok")
    /\ UNCHANGED << actsFrame, actsTables, run, pc, faults, sitemaps,
                    pageUrls, i, results, k >>

\* What the callback returns for url: the body of the ok response as it
\* is (it has no url and no status), {url, status: 'skipped'}, or
\* {url, status: 'error'} for the marker and for a thrown request.
ActsFetchResult(url, f, data) ==
    IF f.st = "ok"
    THEN [url |-> Undefined, status |-> Undefined,
          act_name |-> data.act_name, act_id |-> data.act_id,
          section_text |-> data.section_text]
    ELSE [url |-> url,
          status |-> IF f.st = "skipped" THEN "skipped" ELSE "error",
          act_name |-> Undefined, act_id |-> Undefined,
          section_text |-> Undefined]

\* const results = await Promise.all(fetchPromises)
Acts_Collect ==
    /\ driver = "acts" /\ pc = "fetching"
    /\ \A p \in DOMAIN fetches :
          fetches[p].st \in {"ok", "failed", "threw", "skipped"}
    /\ results' = [p \in DOMAIN fetches |->
                     ActsFetchResult(batch[p], fetches[p],
                                     scrapeActsPage(batch[p],
                                                    upstream[batch[p]]))]
    /\ fetches' = << >>
    /\ k' = 1
    /\ pc' = "draining"
    /\ UNCHANGED << actsFrame, actsTables, run, faults, netFaults, sitemaps,
                    pageUrls, i >>

\* if (result.status === 'error' || result.status === 'skipped') continue
Acts_DrainSkip ==
    /\ driver = "acts" /\ pc = "draining" /\ k <= Len(results)
    /\ results[k].status \in {"error", "skipped"}
    /\ k' = k + 1
    /\ UNCHANGED << actsFrame, actsTables, run, pc, faults, netFaults,
                    sitemaps, pageUrls, i, fetches, results >>

\* The store calls the pair makes for actName, in order; the others are not
\* made and are given no outcome.
ActsCanonical(tbl, actName, o) ==
    LET found == getExistingActId(tbl, actName, o.lk).kind
    IN  /\ found # "null" => o.wr = "ok"
        /\ insertAct(tbl, actName, o).ret.kind # "id" => o.ws = "ok"

FaultsOfAct(o) ==
    (IF o.lk = "error" THEN 1 ELSE 0) + (IF o.wr = "error" THEN 1 ELSE 0)
    + (IF o.ws = "error" THEN 1 ELSE 0)

\* try { const actId = await insertAct(result.act_name);
\*       await insertSection(actId, result) } catch (error) { log }
Acts_DrainInsert ==
    /\ driver = "acts" /\ pc = "draining" /\ k <= Len(results)
    /\ results[k].status \notin {"error", "skipped"}
    /\ \E o \in ActOutcomes :
         LET out == insertAct(acts, results[k].act_name, o)
         IN  /\ ActsCanonical(acts, results[k].act_name, o)
             /\ faults + FaultsOfAct(o) <= MaxFaults
             /\ faults' = faults + FaultsOfAct(o)
             /\ acts' = out.acts
             /\ sections' = IF out.ret.kind = "id"
                            THEN insertSection(sections, out.ret.id,
                                               results[k], o.ws)
                            ELSE sections
    /\ k' = k + 1
    /\ UNCHANGED << actsFrame, scrapingSitemap, run, pc, netFaults, sitemaps,
                    pageUrls, i, fetches, results >>

\* The results of the batch are drained: next batch.
Acts_EndBatch ==
    /\ driver = "acts" /\ pc = "draining" /\ k > Len(results)
    /\ i' = i + batchSize
    /\ results' = << >>
    /\ k' = 1
    /\ pc' = "batch"
    /\ UNCHANGED << actsFrame, actsTables, run, faults, netFaults, sitemaps,
                    pageUrls, fetches >>

\* The loop over the batches is over: await upsertSiteMap(siteMapUrl),
\* sleep(20000), next sitemap.  A rejected store call is not caught.
Acts_MarkProcessed ==
    /\ driver = "acts" /\ pc = "batch" /\ i >= Len(pageUrls)
    /\ \E lk \in Lookups, wr \in Lookups :
         LET n == (IF lk = "ok" THEN 0 ELSE 1) + (IF wr = "ok" THEN 0 ELSE 1)
             asked == checkIfProcessed(scrapingSitemap, Head(sitemaps), lk)
         IN  /\ asked \in {"yes", "rejected"} => wr = "ok"
             /\ faults + n <= MaxFaults
             /\ faults' = faults + n
             /\ IF asked = "rejected" \/ wr = "throw"
                THEN /\ pc' = "aborted"
                     /\ UNCHANGED << scrapingSitemap, sitemaps, pageUrls, i >>
                ELSE /\ scrapingSitemap' =
                          upsertSiteMap(scrapingSitemap, Head(sitemaps),
                                        lk, wr)
                     /\ sitemaps' = Tail(sitemaps)
                     /\ pageUrls' = << >>
                     /\ i' = 0
                     /\ pc' = "sitemap"
    /\ UNCHANGED << actsFrame, acts, sections, run, netFaults, fetches,
                    results, k >>

\* The loop over the sitemaps is over: 'done' is logged.
Acts_Done ==
    /\ driver = "acts" /\ pc = "sitemap" /\ sitemaps = << >>
    /\ pc' = "completed"
    /\ UNCHANGED << actsFrame, actsTables, run, faults, netFaults, sitemaps,
                    pageUrls, i, fetches, results, k >>

ActsNext ==
    \/ Acts_NextRun
    \/ Acts_FetchSitemaps
    \/ Acts_SkipCfr
    \/ Acts_CheckProcessed
    \/ Acts_FetchPages
    \/ Acts_BeginBatch
    \/ \E p \in 1..batchSize : Acts_SectionCheck(p)
    \/ \E p \in 1..batchSize : Acts_FetchAttempt(p)
    \/ Acts_Collect
    \/ Acts_DrainSkip
    \/ Acts_DrainInsert
    \/ Acts_EndBatch
    \/ Acts_MarkProcessed
    \/ Acts_Done

ActsSpec == ActsInit /\ [][ActsNext]_vars

\* ================================================================ claims

\* C1: the record table never holds two rows with the same non-empty
\* citation, whatever the sequence of insertCaseLaw calls.
C1_NoDuplicateCitation ==
    \A a, b \in DOMAIN records :
        (a # b /\ Truthy(records[a].citation))
            => records[a].citation # records[b].citation

\* C2: once a run has ended (normally), every locator that was passed to
\* fetchWithRetry in it has a ledger entry with status success or error.
C2_LedgerEntryPerDispatched ==
    pc = "completed" =>
        \A u \in dispatched :
            ledger[u].present /\ ledger[u].status \in {"success", "error"}

\* C3: a second run against the unchanged upstream adds no row to the record
\* table (stated for runs that met no store and no network failure).
C3_SecondRunAddsNoRow ==
    (run >= 2 /\ faults = 0 /\ ~netFaults) => Len(records) = rowsAtStart

\* C4: checkIfUrlProcessed answers true only for a url whose ledger entry
\* has processed=true, and a ledger entry has processed=true only when its
\* case_id is a row of the record table that was scraped from that url.
C4_NoFalsePositive ==
    /\ \A p \in DOMAIN checks :
          checks[p] = "yes" =>
              ledger[filterBatch[p]].present /\ ledger[filterBatch[p]].processed
    /\ \A u \in URLs :
          (ledger[u].present /\ ledger[u].processed) =>
              /\ ledger[u].case_id \in DOMAIN records
              /\ records[ledger[u].case_id].src = u

\* C4 witness: a check has answered true, for a url with a record.
C4_Witness ==
    \E p \in DOMAIN checks :
        /\ checks[p] = "yes"
        /\ \E x \in DOMAIN records : records[x].src = filterBatch[p]

\* C5 as claimed: in the US driver no locator whose ledger entry has
\* processed=true is passed to fetchWithRetry.
C5_ProcessedNotDispatched ==
    (driver = "us" /\ pc = "fetching") =>
        \A p \in DOMAIN fetches : ~ledger[cloudFlareBatch[p]].processed

AnsweredYes(u) ==
    /\ \E p \in DOMAIN checks : filterBatch[p] = u
    /\ \A p \in DOMAIN checks : filterBatch[p] = u => checks[p] = "yes"

RowsFrom(recs, u) ==
    { x \in DOMAIN recs : recs[x].src = u }

\* C5 amended: in the US driver, while a filter batch is dispatched and
\* drained, a locator whose existence check answered true is not in a
\* dispatch batch, no step writes a record for it or changes its ledger
\* entry, and the locators whose check answered false are exactly the ones
\* dispatched: all of them have been passed to fetchWithRetry when the
\* dispatch loop of the filter batch ends.
C5_SkippedUntouched ==
    [][ (driver = "us" /\ pc \in {"dispatch", "fetching", "draining"}) =>
          /\ \A u \in URLs :
                AnsweredYes(u) =>
                    /\ u \notin Range(urlsToProcess)
                    /\ ledger'[u] = ledger[u]
                    /\ RowsFrom(records', u) = RowsFrom(records, u)
          /\ Range(urlsToProcess) =
                { filterBatch[p] : p \in { q \in DOMAIN checks :
                                             AnsweredNo(checks[q]) } }
          /\ (pc = "dispatch" /\ j >= Len(urlsToProcess))
                => Range(urlsToProcess) \subseteq dispatched ]_vars

\* C5 witness: a batch of the US driver in which one check answered true
\* and another false, the latter's result being drained.
C5_Witness ==
    /\ driver = "us" /\ pc = "draining" /\ lastIngest.called
    /\ \E p, q \in DOMAIN checks :
          checks[p] = "yes" /\ AnsweredNo(checks[q])

\* C6: the Singapore driver never sends to the scrape endpoint a url whose
\* ledger entry has processed=true.
C6_SgSkipsProcessed ==
    (driver = "sg" /\ pc = "fetching") =>
        \A p \in DOMAIN fetches : ~ledger[cloudFlareBatch[p]].processed

\* C7: an insertCaseLaw call whose citation lookup failed with a store
\* error writes no row.
C7_PreCommitFailClosed ==
    (lastIngest.called /\ lastIngest.lookupFailed) => ~lastIngest.wrote

\* C8: a failing pre-fetch lookup, returned error or thrown, is answered
\* "not existing": no check of a batch ends rejected, and the run goes on.
C8_PreFetchFailOpen ==
    /\ \A p \in DOMAIN checks : checks[p] # "rejected"
    /\ (pc = "aborted" /\ driver = "us") => checks = << >>

\* The value insertCaseLaw returns for the empty-content skip.
EmptySkipRet ==
    SG_insertCaseLaw(<< >>, [u \in URLs |-> NoEntry],
                     [citation |-> "", case_text |-> ""], "u1",
                     [lk |-> "ok", wr |-> "ok", up |-> "ok", eu |-> "ok"]).ret

\* C9: insertCaseLaw called with a record whose citation already exists
\* does not raise, and what it returns differs from what the empty-content
\* skip returns and from a successful insert (stated for the Singapore
\* driver and a lookup that did not fail).
C9_DuplicateOutcomeDistinct ==
    (driver = "sg" /\ lastIngest.called /\ lastIngest.citationExisted
     /\ ~lastIngest.lookupFailed) =>
        /\ lastIngest.ret.kind # "throw"
        /\ lastIngest.ret.kind # "id"
        /\ lastIngest.ret # EmptySkipRet

\* C10: no row of the record table has an empty, whitespace-only or missing
\* case_text.
C10_EmptyTextNeverStored ==
    \A x \in DOMAIN records : ~BlankText(records[x].case_text)

\* C11: every ledger entry with status success has processed=true and a
\* case_id that is a row of the record table, and every ledger entry with
\* status error has processed=false.
C11_SuccessLinked ==
    \A u \in URLs :
        ledger[u].present =>
            /\ ledger[u].status = "success" =>
                   ledger[u].processed /\ ledger[u].case_id \in DOMAIN records
            /\ ledger[u].status = "error" => ~ledger[u].processed

\* C11 witness: one entry is a success, and another, once a success, was
\* turned into an error by a later insertCaseLaw call for its url.
C11_Witness ==
    \E u, v \in URLs :
        /\ ledger[u].status = "success"
        /\ ledger[v].status = "error" /\ ledger[v].case_id # 0

\* C12: after an insertCaseLaw call whose record write or success upsert
\* failed, the ledger entry of its url has status error, processed=false
\* and the message of that failure, and that failure was thrown to the
\* driver.
C12_FailureRecorded ==
    (lastIngest.called /\ lastIngest.failure # "") =>
        /\ ledger[lastIngest.url].present
        /\ ledger[lastIngest.url].status = "error"
        /\ ~ledger[lastIngest.url].processed
        /\ ledger[lastIngest.url].error_message = lastIngest.failure
        /\ lastIngest.ret.kind = "throw"
        /\ lastIngest.failure \in Range(lastIngest.raised)

\* C13: an insertCaseLaw call whose write failed and whose error upsert
\* failed too throws both failures to its caller.
C13_BothSurfaced ==
    (lastIngest.called /\ lastIngest.failure # ""
     /\ lastIngest.secondaryFailed) =>
        /\ lastIngest.ret.kind = "throw"
        /\ lastIngest.failure \in Range(lastIngest.raised)
        /\ Len(lastIngest.raised) = 2

\* C14: one fetchWithRetry call issues at most Retries requests.  A request
\* is issued only while fewer than Retries were answered (f.i counts the
\* non-ok answers of the call); a request answered ok ends the call at once
\* with that response; the call ends with the marker exactly when its
\* Retries-th request is answered non-ok; an ended call issues no request.
C14_AtMostRetries ==
    [][ \A p \in DOMAIN fetches \cap DOMAIN fetches' :
          LET f == fetches[p]
              g == fetches'[p]
          IN  /\ f.st # "flying" => g = f
              /\ (f.st = "flying" /\ g # f) =>
                    /\ f.i + 1 <= Retries
                    /\ \/ g.st \in {"ok", "threw"}
                       \/ g.st = "flying" /\ g.pass = f.pass
                          /\ g.i = f.i + 1 /\ g.i < Retries
                       \/ g.st = "flying" /\ g.pass = f.pass + 1 /\ g.i = 0
                       \/ g.st = "failed" /\ f.i + 1 = Retries
                    /\ ~netFaults' =>
                          g.st = "ok" \/ g.pass = f.pass + 1 ]_vars

\* C14 witness: a call has ended with the marker, after Retries requests.
C14_Witness ==
    \E p \in DOMAIN fetches : fetches[p].st = "failed"

\* C15: a request of fetchWithRetry that throws is followed by another
\* request of the same call while fewer than Retries were made: the call
\* does not end by that throw.
C15_ThrowIsRetried ==
    [][ \A p \in DOMAIN fetches \cap DOMAIN fetches' :
          (fetches[p].st = "flying" /\ fetches[p].i + 1 < Retries)
              => fetches'[p].st # "threw" ]_vars

\* C16: when the fetches of a batch are collected, the marker of an
\* exhausted fetchWithRetry call gives an error result that carries the url
\* and the marker's reason, and the drain loop writes nothing for it.
C16_MarkerIsErrorResult ==
    [][ /\ (pc = "fetching" /\ pc' = "draining") =>
              \A p \in DOMAIN fetches :
                  fetches[p].st = "failed" =>
                      /\ results'[p].status = "error"
                      /\ results'[p].url = cloudFlareBatch[p]
                      /\ results'[p].error = "Failed after multiple retries"
        /\ (pc = "draining" /\ k' = k + 1
            /\ results[k].error = "Failed after multiple retries") =>
              /\ records' = records
              /\ ledger' = ledger
              /\ lastIngest' = lastIngest ]_vars

\* C16 witness: the error result of a marker has been passed over by the
\* drain loop.
C16_Witness ==
    /\ pc = "draining"
    /\ \E x \in DOMAIN results :
          x < k /\ results[x].error = "Failed after multiple retries"

\* C17: while an existence check of a listing page is pending, no locator
\* of that page has been passed to fetchWithRetry.
C17_ChecksBeforeFetches ==
    (\E p \in DOMAIN checks : checks[p] = "pending") =>
        Range(pageUrls) \cap dispatched = {}

InFlightChecks ==
    { p \in DOMAIN checks : checks[p] = "pending" }

\* C18: in the US driver the filter batches of a page of n locators are the
\* consecutive slices that start at the multiples of filterBatchSize below
\* n: each holds at most filterBatchSize locators, the loop ends after
\* ceil(n / filterBatchSize) of them, a batch is checked position by
\* position, an answered check is not made again, and at most
\* filterBatchSize checks are pending at any time.
C18_FilterPartition ==
    /\ [](driver = "us" =>
            /\ i % filterBatchSize = 0
            /\ i < Len(pageUrls) + filterBatchSize
            /\ Cardinality(InFlightChecks) <= filterBatchSize
            /\ pc \in {"checking", "dispatch", "fetching", "draining"} =>
                  /\ i < Len(pageUrls)
                  /\ Len(checks) = Min(filterBatchSize, Len(pageUrls) - i)
                  /\ \A p \in DOMAIN checks : filterBatch[p] = pageUrls[i + p])
    /\ [][ driver = "us" =>
            /\ (i' # i /\ run' = run) =>
                  \/ i' = 0 /\ pc = "sitemap"
                  \/ i' = i + filterBatchSize /\ InFlightChecks = {}
                     /\ checks # << >>
            /\ \A p \in DOMAIN checks \cap DOMAIN checks' :
                  (checks[p] # "pending" /\ i' = i) => checks'[p] = checks[p]
          ]_vars

\* C18 witness: the second, shorter filter batch of a page has been checked.
C18_Witness ==
    /\ driver = "us" /\ pc = "checking"
    /\ i = filterBatchSize /\ i + filterBatchSize > Len(pageUrls)
    /\ InFlightChecks = {}

C20_DrainAfterAllSettled ==
    [][ /\ (pc # "draining" /\ pc' = "draining") =>
              /\ pc = "fetching"
              /\ \A p \in DOMAIN fetches : fetches[p].st # "flying"
              /\ Len(results') = Len(fetches)
        /\ (records' # records \/ ledger' # ledger) =>
              /\ pc = "draining" /\ fetches = << >>
              /\ k \in DOMAIN results ]_vars

\* C20 witness: a batch of two fetches, settled in either order, has been
\* collected and its second result written to the store.
C20_Witness ==
    /\ pc = "draining" /\ Len(results) = 2 /\ k = 3
    /\ lastIngest.called /\ lastIngest.url = results[2].url
    /\ lastIngest.wrote

C23_PagesSequential ==
    [][ ((pageIndex' # pageIndex \/ sitemaps' # sitemaps
          \/ pageUrls' # pageUrls) /\ run' = run) =>
            /\ InFlightChecks = {}
            /\ fetches = << >>
            /\ k > Len(results) ]_vars

\* C23 witness: the Singapore driver is on its second page, after a write
\* made for the first.
C23_Witness ==
    /\ driver = "sg" /\ pc = "checking" /\ pageIndex = StartPage + 1
    /\ Len(records) > rowsAtStart

C25_PageLimit ==
    /\ []((driver = "sg" /\ pc \in {"checking", "fetching", "draining"})
            => pageIndex <= maxPages)
    /\ [][ (driver = "sg" /\ pc \in {"start", "page"}
            /\ pageIndex > maxPages) =>
              /\ pc' = "completed"
              /\ UNCHANGED << netFaults, pageIndex, pageUrls, checks,
                              dispatched, records, ledger >> ]_vars

\* C25 witness: the run ended with the index past maxPages, every page
\* up to maxPages having given locators.
C25_Witness ==
    /\ driver = "sg" /\ pc = "completed" /\ pageIndex = maxPages + 1

\* C26: when the Singapore driver stops on a listing page that was answered
\* and is within the limit, at least three listing pages were requested in
\* the run: one page without new cases does not end the crawl.
C26_StopsAfterThreeQuietPages ==
    (driver = "sg" /\ pc = "completed" /\ ~netFaults
     /\ WithinLimit(pageIndex)) =>
        pageIndex >= StartPage + 2

\* C27 as claimed: a run of the tracked US driver that has ended has its
\* summary in the job-run table: status completed after a normal end,
\* failed with the error message after an abort, with the counters.
C27_SummaryReported ==
    (driver = "us" /\ pc \in {"completed", "aborted"}) =>
        /\ jobRun.present
        /\ jobRun.status = (IF pc = "completed" THEN "completed" ELSE "failed")
        /\ jobRun.new_cases_found = newCasesFound
        /\ jobRun.pages_processed = sitemapsProcessed

\* C27 amended: a run of the tracked US driver that has ended has made one
\* summary call, completeJob after a normal end and failJob after an abort,
\* never both and none before the end; a row with status completed or
\* failed exists only after the matching end and carries the counters of
\* the run (and, failed, the error message).  The counters count what the
\* run did: sitemaps whose page list was fetched, insertCaseLaw calls that
\* returned.
C27_OneSummaryCall ==
    driver = "us" =>
        /\ pc = "completed" => jobCalls = [complete |-> 1, fail |-> 0]
        /\ pc = "aborted" => jobCalls = [complete |-> 0, fail |-> 1]
        /\ pc \notin {"completed", "aborted"} =>
              /\ jobCalls = [complete |-> 0, fail |-> 0]
              /\ jobRun.status \in {"none", "started"}
        /\ jobRun.status = "completed" =>
              /\ pc = "completed" /\ jobRun.error_message = ""
              /\ jobRun.new_cases_found = newCasesFound
              /\ jobRun.pages_processed = sitemapsProcessed
        /\ jobRun.status = "failed" =>
              /\ pc = "aborted" /\ jobRun.error_message # ""
              /\ jobRun.new_cases_found = newCasesFound
              /\ jobRun.pages_processed = sitemapsProcessed
        /\ newCasesFound <= Len(records) - rowsAtStart
        /\ sitemapsProcessed <= maxSitemaps

\* C27 witness: a run that ingested a case has ended normally and its
\* summary is in the table.
C27_Witness ==
    /\ driver = "us" /\ pc = "completed"
    /\ jobRun.status = "completed" /\ jobRun.new_cases_found >= 1

\* C28: a run is aborted only by the failure of its first listing request:
\* the sitemap index of the US driver, the first page of the Singapore
\* driver.
C28_OnlyFirstListingFatal ==
    pc = "aborted" =>
        IF driver = "us" THEN sitemaps = << >> /\ pageUrls = << >>
        ELSE pageIndex = StartPage

\* C29 as claimed: after an insertCaseLaw call that returned an id or
\* threw, the ledger entry of its url shows that outcome.
C29_LatestAttemptReflected ==
    lastIngest.called =>
        /\ lastIngest.ret.kind = "id" =>
              ledger[lastIngest.url].status = "success"
        /\ lastIngest.ret.kind = "throw" =>
              ledger[lastIngest.url].status = "error"

\* C29 amended: the ledger has one entry per url, and after an
\* insertCaseLaw call whose ledger upsert did not fail the entry shows the
\* outcome of that call, whatever it showed before: success with the id
\* returned, or error with the message thrown.
C29_LastWriteWins ==
    lastIngest.called =>
        LET e == ledger[lastIngest.url]
        IN  /\ lastIngest.ret.kind = "id" =>
                  /\ e.present /\ e.status = "success" /\ e.processed
                  /\ e.case_id = lastIngest.ret.id
            /\ (lastIngest.ret.kind = "throw" /\ ~lastIngest.secondaryFailed) =>
                  /\ e.present /\ e.status = "error" /\ ~e.processed
                  /\ e.error_message = Head(lastIngest.raised)

\* C29 witness: a failed attempt has replaced the success an earlier
\* attempt had left for the same url.
C29_Witness ==
    /\ lastIngest.called /\ lastIngest.ret.kind = "throw"
    /\ ~lastIngest.secondaryFailed
    /\ ledger[lastIngest.url].status = "error"
    /\ ledger[lastIngest.url].case_id # 0

\* C30: the locators of one page that a driver checks are within its cap:
\* the first maxEntriesPerPage of a Singapore page, the first
\* maxEntriesPerSitemap of a sitemap of the US driver.
C30_PerPageCap ==
    IF driver = "sg" THEN Len(checks) <= maxEntriesPerPage
    ELSE i + Len(checks) <= maxEntriesPerSitemap

C33_TrackingNeverBlocks ==
    [][ driver = "us" =>
          /\ pc = "start" => pc' = "index"
          /\ (pc = "sitemap" /\ sitemaps = << >>) => pc' = "completed"
          /\ (pc' = "aborted" /\ pc # "aborted") =>
                /\ pc \in {"index", "sitemap", "checking"}
                /\ (netFaults' /\ pc \in {"index", "sitemap"})
                   \/ (pc = "checking" /\ faults' > faults)
          /\ (pc # "start" /\ ~jobRun.present) => jobRun' = NoJobRun
          /\ pc' \in {"completed", "aborted"} =>
                jobCalls'.complete + jobCalls'.fail = 1 ]_vars

\* C33 witness: a run whose startJob failed has crawled, ingested a case
\* and ended normally, with nothing in the job-run table.
C33_Witness ==
    /\ driver = "us" /\ pc = "completed" /\ run = 1
    /\ ~jobRun.present /\ jobCalls.complete = 1
    /\ newCasesFound >= 1 /\ Len(records) >= 1

\* C34 as claimed: a run that has ended and whose startJob had inserted a
\* row has left the row in status completed or failed.
C34_RowLeavesStarted ==
    (driver = "us" /\ pc \in {"completed", "aborted"} /\ jobRun.present) =>
        jobRun.status \in {"completed", "failed"}

\* C34 amended: the status of the row of a run is set to started by
\* startJob and changes once more at most, to completed in the step that
\* ends the run normally or to failed in the step that aborts it; a row
\* that is completed or failed is not written again in the run.  The run
\* that ends leaves the status of its row changed exactly when the update
\* of completeJob / failJob met no store failure; else the row stays
\* started.
C34_StatusMonotone ==
    [][ driver = "us" =>
          /\ (jobRun'.status # jobRun.status /\ run' = run) =>
                \/ /\ pc = "start" /\ jobRun.status = "none"
                   /\ jobRun'.status = "started"
                \/ /\ jobRun.status = "started" /\ pc' = "completed"
                   /\ pc # "completed" /\ jobRun'.status = "completed"
                \/ /\ jobRun.status = "started" /\ pc' = "aborted"
                   /\ pc # "aborted" /\ jobRun'.status = "failed"
          /\ (jobRun.status \in {"completed", "failed"} /\ run' = run) =>
                jobRun' = jobRun
          /\ (pc \notin {"completed", "aborted"}
              /\ pc' \in {"completed", "aborted"} /\ jobRun.present) =>
                IF faults' = faults + (IF pc = "checking" THEN 1 ELSE 0)
                THEN jobRun'.status \in {"completed", "failed"}
                ELSE jobRun' = jobRun /\ jobRun.status = "started" ]_vars

\* C34 witness: the row a run had started was marked failed when a request
\* for the page urls of a sitemap failed.
C34_Witness ==
    /\ driver = "us" /\ pc = "aborted" /\ sitemaps # << >>
    /\ jobRun.status = "failed" /\ jobRun.error_message = "page urls failed"

\* C35: the new_cases_found a run of the tracked US driver reported is the
\* number of rows the run added to the record table.
C35_CountEqualsRowsAdded ==
    (driver = "us" /\ jobRun.status \in {"completed", "failed"}) =>
        jobRun.new_cases_found = Len(records) - rowsAtStart

\* C31: when the insertCaseLaw calls of two overlapping Singapore runs are
\* both over and no store call has failed, the record table holds at most
\* one row with the citation the two records share.
C31_RecheckSerializes ==
    (/\ \A w \in Writers : writers[w].pc = "done"
     /\ faults = 0
     /\ writers[1].caseData.citation = writers[2].caseData.citation
     /\ Truthy(writers[1].caseData.citation)) =>
        Cardinality(RowsWithCitation(records,
                                     writers[1].caseData.citation)) <= 1

\* The page urls of sitemap s that have a section in the table, found by
\* the act identifier the section was stored with.
HasSection(secs, url) ==
    \E x \in DOMAIN secs :
        secs[x].act_identifier = extractActIdentifierFromUrl(url)

\* C36 as claimed: the acts driver requests the page urls of no sitemap
\* that is marked processed.
C36_ProcessedNeverRequested ==
    (driver = "acts" /\ pc = "pages") => Head(sitemaps) \notin scrapingSitemap

\* C36 amended: a sitemap is marked processed only by the step that follows
\* the last drained batch of its page urls; a sitemap whose checkIfProcessed
\* call answered true is passed over without a request, and one whose call
\* returned an error is requested again; a sitemap whose url includes
\* '/cfr/' is passed over without a store call or a request and is never
\* marked.
C36_MarkedAfterDrain ==
    /\ [](driver = "acts" =>
            /\ \A s \in scrapingSitemap : ~IncludesCfr(s)
            /\ pc \in {"pages", "batch", "fetching", "draining"} =>
                  ~IncludesCfr(Head(sitemaps)))
    /\ [][ driver = "acts" =>
            /\ scrapingSitemap' # scrapingSitemap =>
                  /\ pc = "batch" /\ i >= Len(pageUrls)
                  /\ fetches = << >> /\ results = << >>
                  /\ scrapingSitemap' = scrapingSitemap \cup {Head(sitemaps)}
                  /\ sitemaps' = Tail(sitemaps)
            /\ (pc = "sitemap" /\ pc' = "pages") =>
                  Head(sitemaps) \notin scrapingSitemap \/ faults' > faults
            /\ (pc = "sitemap" /\ sitemaps # << >> /\ faults' = faults
                /\ Head(sitemaps) \in scrapingSitemap) =>
                  /\ pc' = "sitemap" /\ sitemaps' = Tail(sitemaps)
                  /\ UNCHANGED << pageUrls, netFaults, actsTables >>
            /\ (pc = "sitemap" /\ sitemaps # << >>
                /\ IncludesCfr(Head(sitemaps))) =>
                  /\ pc' = "sitemap" /\ sitemaps' = Tail(sitemaps)
                  /\ UNCHANGED << pageUrls, netFaults, faults, actsTables >>
          ]_vars

\* C36 witness: a second run has passed over the sitemap the first run
\* had marked, without a request for its page urls, and has ended.
C36_Witness ==
    /\ driver = "acts" /\ run = 2 /\ pc = "completed"
    /\ scrapingSitemap = {SiteMapMn} /\ faults = 0 /\ ~netFaults
    /\ Len(sections) = 2

\* C37: every page url of a sitemap that is marked processed has a section
\* in the sections table.
C37_MarkedMeansStored ==
    driver = "acts" =>
        \A s \in scrapingSitemap :
            \A x \in DOMAIN ActsPageUrlsOf(s) :
                HasSection(sections, ActsPageUrlsOf(s)[x])

\* C38 as claimed: the acts table holds no two rows with the same act_name.
C38_OneRowPerName ==
    driver = "acts" =>
        \A x, y \in DOMAIN acts :
            acts[x].act_name = acts[y].act_name => x = y

\* C38 amended: the acts table holds no two rows with the same act name,
\* rows without a name set aside; insertAct adds a row only for a name
\* (or a missing name) that no row has, and the act id it returns, with
\* which the section is stored, is the id of the row of that name.
C38_GetOrCreate ==
    /\ [](driver = "acts" =>
            \A x, y \in DOMAIN acts :
                (acts[x].act_name = acts[y].act_name
                 /\ acts[x].act_name # Undefined) => x = y)
    /\ [][ driver = "acts" =>
            /\ acts' # acts =>
                  /\ pc = "draining" /\ k \in DOMAIN results
                  /\ acts' = Append(acts, [act_name |-> results[k].act_name])
                  /\ ActsNamed(acts, results[k].act_name) = {}
            /\ sections' # sections =>
                  /\ Len(sections') = Len(sections) + 1
                  /\ LET id == sections'[Len(sections')].act_id
                     IN  /\ id \in DOMAIN acts'
                         /\ acts'[id].act_name = results[k].act_name
                         /\ results[k].act_name # Undefined =>
                               ActsNamed(acts', results[k].act_name) = {id}
          ]_vars

\* C38 witness: two sections of the same act were stored, the second with
\* the id insertAct found for the name the first call had inserted.
C38_Witness ==
    /\ driver = "acts" /\ Len(acts) = 1 /\ acts[1].act_name = "A"
    /\ Len(sections) = 2
    /\ sections[1].act_id = 1 /\ sections[2].act_id = 1
    /\ sections[1].act_identifier # sections[2].act_identifier

\* Requests a callback of fetchPromises can still make: the rest of its
\* fetchWithRetry call and, before the second call, all of that one.
RequestsLeft(f) ==
    IF f.st # "flying" THEN 0
    ELSE IF f.pass = 1 THEN 2 * Retries - f.i
    ELSE Retries - f.i

RECURSIVE SumRequestsLeft(_)
SumRequestsLeft(fs) ==
    IF fs = << >> THEN 0
    ELSE RequestsLeft(Head(fs)) + SumRequestsLeft(Tail(fs))

\* A measure of what a run of the Singapore driver has left to do: the
\* pages up to maxPages, the phase within the page, and within the phase
\* the pending checks, the requests left, the results left to drain.
SG_Rank ==
    IF pc \in {"completed", "aborted"} THEN 0
    ELSE 1 + (maxPages + 1 - pageIndex) * 10000
         + (IF pc \in {"start", "page"} THEN 4000
            ELSE IF pc = "checking"
            THEN 3000 + Cardinality({ p \in DOMAIN checks :
                                        checks[p] = "pending" })
            ELSE IF pc = "fetching" THEN 2000 + SumRequestsLeft(fetches)
            ELSE 1000 + Len(results) + 1 - k)

\* C39: every step of a run of the Singapore driver lowers a measure that
\* is never negative, a run that has not ended can always take a step, the
\* page index stays within maxPages + 1 and no fetchWithRetry call is past
\* its last attempt: the run ends after finitely many steps.
C39_Terminates ==
    /\ [](driver = "sg" =>
            /\ SG_Rank >= 0
            /\ pageIndex <= maxPages + 1
            /\ \A p \in DOMAIN fetches : fetches[p].i < Retries
            /\ pc \notin {"completed", "aborted"} =>
                  ENABLED (SG_Next \/ DrainSkip \/ DrainInsert))
    /\ [][ (driver = "sg" /\ run' = run) => SG_Rank' < SG_Rank ]_vars

\* C39 witness: a run that met failed requests has gone through every
\* page up to maxPages, written a row, and ended.
C39_Witness ==
    /\ driver = "sg" /\ pc = "completed" /\ netFaults
    /\ pageIndex = maxPages + 1 /\ Len(records) > rowsAtStart
    /\ SG_Rank = 0

====
